---- MODULE Spec2Model ----
(***************************************************************************)
(* Verification model of the D2RSO input pipeline: the code normalizer     *)
(* (input_events.py), the tracker matching engine (tracker_engine.py,      *)
(* models.py), the countdown service (countdown_service.py) and the input  *)
(* router (input_router.py).                                               *)
(*                                                                         *)
(* Strings are modelled as sequences of one-character strings so that the  *)
(* normalizers can be computed the way the code computes them.             *)
(***************************************************************************)
EXTENDS Integers, Sequences, FiniteSets, TLC

(* ----------------------------------------------------------------------- *)
(* Character and string helpers (Python str methods used by the code)      *)
(* ----------------------------------------------------------------------- *)

\* Python None for an optional code / optional value.
None == <<"None">>

Lowers == <<"a","b","c","d","e","f","g","h","i","j","k","l","m","n","o","p","q","r","s","t","u","v","w","x","y","z">>

Uppers == <<"A","B","C","D","E","F","G","H","I","J","K","L","M","N","O","P","Q","R","S","T","U","V","W","X","Y","Z">>

Digits == <<"0","1","2","3","4","5","6","7","8","9">>

IsUpper(c) == \E i \in 1..26 : Uppers[i] = c

IsLowerAlpha(c) == \E i \in 1..26 : Lowers[i] = c

IsDigit(c) == \E i \in 1..10 : Digits[i] = c

DigitVal(c) == (CHOOSE i \in 1..10 : Digits[i] = c) - 1

\* str.lower() / str.casefold() on one ASCII character
LowerChar(c) == IF IsUpper(c) THEN Lowers[CHOOSE i \in 1..26 : Uppers[i] = c] ELSE c

\* str.upper() on one ASCII character
UpperChar(c) == IF IsLowerAlpha(c) THEN Uppers[CHOOSE i \in 1..26 : Lowers[i] = c] ELSE c

LowerStr(s) == [i \in 1..Len(s) |-> LowerChar(s[i])]

UpperStr(s) == [i \in 1..Len(s) |-> UpperChar(s[i])]

IsSpace(c) == c = " "

RECURSIVE LStrip(_)
LStrip(s) == IF s # <<>> /\ IsSpace(Head(s)) THEN LStrip(Tail(s)) ELSE s

RECURSIVE RStrip(_)
RStrip(s) == IF s # <<>> /\ IsSpace(s[Len(s)]) THEN RStrip(SubSeq(s, 1, Len(s) - 1)) ELSE s

\* str.strip()
Strip(s) == RStrip(LStrip(s))

\* str.startswith(p)
StartsWith(s, p) == Len(s) >= Len(p) /\ SubSeq(s, 1, Len(p)) = p

\* s[n:]
Drop(s, n) == SubSeq(s, n + 1, Len(s))

\* str.removeprefix(p)
RemovePrefix(s, p) == IF StartsWith(s, p) THEN Drop(s, Len(p)) ELSE s

\* str.isdigit() (false on the empty string); also the regex \d+
AllDigits(s) == s # <<>> /\ \A i \in 1..Len(s) : IsDigit(s[i])

RECURSIVE ParseInt(_)
\* int(s) for a string of decimal digits
ParseInt(s) ==
  IF s = <<>> THEN 0 ELSE ParseInt(SubSeq(s, 1, Len(s) - 1)) * 10 + DigitVal(s[Len(s)])

RECURSIVE DigitsOf(_)
\* str(n) for n >= 0
DigitsOf(n) ==
  IF n < 10 THEN <<Digits[n + 1]>> ELSE DigitsOf(n \div 10) \o <<Digits[(n % 10) + 1]>>

\* dict.get(key) on a table of <<key, value>> pairs; None when absent
Lookup(table, key) ==
  IF \E p \in table : p[1] = key THEN (CHOOSE p \in table : p[1] = key)[2] ELSE None

\* raw codes are tagged: an int, a str, or Python None
IntRaw(n) == [kind |-> "int", val |-> n]

StrRaw(s) == [kind |-> "str", val |-> s]

NoneRaw == [kind |-> "none"]

\* "no InputSource" (Python None where an InputSource is expected)
NoSource == "none"

IsNone(x) == x = None

(* ----------------------------------------------------------------------- *)
(* input_events.py: literals and alias tables                              *)
(* ----------------------------------------------------------------------- *)

s_key_dot == <<"k","e","y",".">>

s_Key_dot == <<"K","e","y",".">>

s_keys_dot == <<"k","e","y","s",".">>

s_keyboard_dot == <<"k","e","y","b","o","a","r","d",".">>

s_keycode_char == <<"k","e","y","c","o","d","e","(","c","h","a","r","=">>

s_keycode_vk == <<"k","e","y","c","o","d","e","(","v","k","=">>

s_buttons == <<"b","u","t","t","o","n","s">>

s_button == <<"b","u","t","t","o","n">>

s_gamepadbutton == <<"g","a","m","e","p","a","d","b","u","t","t","o","n">>

s_joystickoffsetbuttons == <<"j","o","y","s","t","i","c","k","o","f","f","s","e","t","b","u","t","t","o","n","s">>

s_joystickoffset == <<"j","o","y","s","t","i","c","k","o","f","f","s","e","t">>

s_mouse == <<"m","o","u","s","e">>

s_mousex == <<"m","o","u","s","e","x">>

s_numpad == <<"n","u","m","p","a","d">>

s_num == <<"n","u","m">>

s_vk == <<"v","k">>

s_Buttons == <<"B","u","t","t","o","n","s">>

s_NumPad == <<"N","u","m","P","a","d">>

s_MOUSEX == <<"M","O","U","S","E","X">>

KEYBOARD_PUNCTUATION_ALIASES ==
  { <<<<",">>, <<"O","e","m","C","o","m","m","a">>>>,
    <<<<"~">>, <<"O","e","m","T","i","l","d","e">>>>,
    <<<<"[">>, <<"O","e","m","O","p","e","n","B","r","a","c","k","e","t","s">>>>,
    <<<<"]">>, <<"O","e","m","C","l","o","s","e","B","r","a","c","k","e","t","s">>>>,
    <<<<":">>, <<"O","e","m","S","e","m","i","c","o","l","o","n">>>>,
    <<<<";">>, <<"O","e","m","S","e","m","i","c","o","l","o","n">>>>,
    <<<<"'">>, <<"O","e","m","Q","u","o","t","e","s">>>>,
    <<<<"+">>, <<"A","d","d">>>>,
    <<<<"-">>, <<"S","u","b","t","r","a","c","t">>>> }

KEYBOARD_ALIASES ==
  { <<<<"e","s","c">>, <<"E","s","c","a","p","e">>>>,
    <<<<"e","s","c","a","p","e">>, <<"E","s","c","a","p","e">>>>,
    <<<<"e","n","t","e","r">>, <<"R","e","t","u","r","n">>>>,
    <<<<"r","e","t","u","r","n">>, <<"R","e","t","u","r","n">>>>,
    <<<<"t","a","b">>, <<"T","a","b">>>>,
    <<<<"b","a","c","k">>, <<"B","a","c","k">>>>,
    <<<<"b","a","c","k","s","p","a","c","e">>, <<"B","a","c","k">>>>,
    <<<<"l","s","h","i","f","t">>, <<"L","S","h","i","f","t","K","e","y">>>>,
    <<<<"l","e","f","t","s","h","i","f","t">>, <<"L","S","h","i","f","t","K","e","y">>>>,
    <<<<"s","h","i","f","t","l">>, <<"L","S","h","i","f","t","K","e","y">>>>,
    <<<<"s","h","i","f","t","l","e","f","t">>, <<"L","S","h","i","f","t","K","e","y">>>>,
    <<<<"s","h","i","f","t","l","k","e","y">>, <<"L","S","h","i","f","t","K","e","y">>>>,
    <<<<"r","s","h","i","f","t">>, <<"R","S","h","i","f","t","K","e","y">>>>,
    <<<<"r","i","g","h","t","s","h","i","f","t">>, <<"R","S","h","i","f","t","K","e","y">>>>,
    <<<<"s","h","i","f","t","r">>, <<"R","S","h","i","f","t","K","e","y">>>>,
    <<<<"s","h","i","f","t","r","i","g","h","t">>, <<"R","S","h","i","f","t","K","e","y">>>>,
    <<<<"s","h","i","f","t","r","k","e","y">>, <<"R","S","h","i","f","t","K","e","y">>>>,
    <<<<"l","a","l","t">>, <<"L","M","e","n","u">>>>,
    <<<<"l","e","f","t","a","l","t">>, <<"L","M","e","n","u">>>>,
    <<<<"a","l","t","l","e","f","t">>, <<"L","M","e","n","u">>>>,
    <<<<"a","l","t","l">>, <<"L","M","e","n","u">>>>,
    <<<<"l","m","e","n","u">>, <<"L","M","e","n","u">>>>,
    <<<<"r","a","l","t">>, <<"R","M","e","n","u">>>>,
    <<<<"r","i","g","h","t","a","l","t">>, <<"R","M","e","n","u">>>>,
    <<<<"a","l","t","r","i","g","h","t">>, <<"R","M","e","n","u">>>>,
    <<<<"a","l","t","r">>, <<"R","M","e","n","u">>>>,
    <<<<"r","m","e","n","u">>, <<"R","M","e","n","u">>>>,
    <<<<"l","c","o","n","t","r","o","l">>, <<"L","C","o","n","t","r","o","l","K","e","y">>>>,
    <<<<"l","e","f","t","c","o","n","t","r","o","l">>, <<"L","C","o","n","t","r","o","l","K","e","y">>>>,
    <<<<"c","o","n","t","r","o","l","l","e","f","t">>, <<"L","C","o","n","t","r","o","l","K","e","y">>>>,
    <<<<"l","c","t","r","l">>, <<"L","C","o","n","t","r","o","l","K","e","y">>>>,
    <<<<"c","t","r","l","l">>, <<"L","C","o","n","t","r","o","l","K","e","y">>>>,
    <<<<"l","c","o","n","t","r","o","l","k","e","y">>, <<"L","C","o","n","t","r","o","l","K","e","y">>>>,
    <<<<"r","c","o","n","t","r","o","l">>, <<"R","C","o","n","t","r","o","l","K","e","y">>>>,
    <<<<"r","i","g","h","t","c","o","n","t","r","o","l">>, <<"R","C","o","n","t","r","o","l","K","e","y">>>>,
    <<<<"c","o","n","t","r","o","l","r","i","g","h","t">>, <<"R","C","o","n","t","r","o","l","K","e","y">>>>,
    <<<<"r","c","t","r","l">>, <<"R","C","o","n","t","r","o","l","K","e","y">>>>,
    <<<<"c","t","r","l","r">>, <<"R","C","o","n","t","r","o","l","K","e","y">>>>,
    <<<<"r","c","o","n","t","r","o","l","k","e","y">>, <<"R","C","o","n","t","r","o","l","K","e","y">>>>,
    <<<<"c","o","m","m","a">>, <<"O","e","m","C","o","m","m","a">>>>,
    <<<<"o","e","m","c","o","m","m","a">>, <<"O","e","m","C","o","m","m","a">>>>,
    <<<<"t","i","l","d","e">>, <<"O","e","m","T","i","l","d","e">>>>,
    <<<<"o","e","m","t","i","l","d","e">>, <<"O","e","m","T","i","l","d","e">>>>,
    <<<<"o","p","e","n","b","r","a","c","k","e","t">>, <<"O","e","m","O","p","e","n","B","r","a","c","k","e","t","s">>>>,
    <<<<"l","e","f","t","b","r","a","c","k","e","t">>, <<"O","e","m","O","p","e","n","B","r","a","c","k","e","t","s">>>>,
    <<<<"o","e","m","o","p","e","n","b","r","a","c","k","e","t","s">>, <<"O","e","m","O","p","e","n","B","r","a","c","k","e","t","s">>>>,
    <<<<"c","l","o","s","e","b","r","a","c","k","e","t">>, <<"O","e","m","C","l","o","s","e","B","r","a","c","k","e","t","s">>>>,
    <<<<"r","i","g","h","t","b","r","a","c","k","e","t">>, <<"O","e","m","C","l","o","s","e","B","r","a","c","k","e","t","s">>>>,
    <<<<"o","e","m","c","l","o","s","e","b","r","a","c","k","e","t","s">>, <<"O","e","m","C","l","o","s","e","B","r","a","c","k","e","t","s">>>>,
    <<<<"s","e","m","i","c","o","l","o","n">>, <<"O","e","m","S","e","m","i","c","o","l","o","n">>>>,
    <<<<"o","e","m","s","e","m","i","c","o","l","o","n">>, <<"O","e","m","S","e","m","i","c","o","l","o","n">>>>,
    <<<<"q","u","o","t","e">>, <<"O","e","m","Q","u","o","t","e","s">>>>,
    <<<<"a","p","o","s","t","r","o","p","h","e">>, <<"O","e","m","Q","u","o","t","e","s">>>>,
    <<<<"o","e","m","q","u","o","t","e","s">>, <<"O","e","m","Q","u","o","t","e","s">>>>,
    <<<<"a","d","d">>, <<"A","d","d">>>>,
    <<<<"p","l","u","s">>, <<"A","d","d">>>>,
    <<<<"s","u","b","t","r","a","c","t">>, <<"S","u","b","t","r","a","c","t">>>>,
    <<<<"m","i","n","u","s">>, <<"S","u","b","t","r","a","c","t">>>> }

MOUSE_ALIASES ==
  { <<<<"m","o","u","s","e","1">>, <<"M","O","U","S","E","1">>>>,
    <<<<"l","e","f","t">>, <<"M","O","U","S","E","1">>>>,
    <<<<"l","b","u","t","t","o","n">>, <<"M","O","U","S","E","1">>>>,
    <<<<"b","u","t","t","o","n","l","e","f","t">>, <<"M","O","U","S","E","1">>>>,
    <<<<"b","u","t","t","o","n","1">>, <<"M","O","U","S","E","1">>>>,
    <<<<"m","o","u","s","e","2">>, <<"M","O","U","S","E","2">>>>,
    <<<<"r","i","g","h","t">>, <<"M","O","U","S","E","2">>>>,
    <<<<"r","b","u","t","t","o","n">>, <<"M","O","U","S","E","2">>>>,
    <<<<"b","u","t","t","o","n","r","i","g","h","t">>, <<"M","O","U","S","E","2">>>>,
    <<<<"b","u","t","t","o","n","2">>, <<"M","O","U","S","E","2">>>>,
    <<<<"m","o","u","s","e","3">>, <<"M","O","U","S","E","3">>>>,
    <<<<"m","i","d","d","l","e">>, <<"M","O","U","S","E","3">>>>,
    <<<<"m","b","u","t","t","o","n">>, <<"M","O","U","S","E","3">>>>,
    <<<<"b","u","t","t","o","n","m","i","d","d","l","e">>, <<"M","O","U","S","E","3">>>>,
    <<<<"b","u","t","t","o","n","3">>, <<"M","O","U","S","E","3">>>>,
    <<<<"m","o","u","s","e","x","1">>, <<"M","O","U","S","E","X","1">>>>,
    <<<<"x","1">>, <<"M","O","U","S","E","X","1">>>>,
    <<<<"x","b","u","t","t","o","n","1">>, <<"M","O","U","S","E","X","1">>>>,
    <<<<"b","u","t","t","o","n","x","1">>, <<"M","O","U","S","E","X","1">>>>,
    <<<<"b","u","t","t","o","n","4">>, <<"M","O","U","S","E","X","1">>>>,
    <<<<"m","o","u","s","e","x","2">>, <<"M","O","U","S","E","X","2">>>>,
    <<<<"x","2">>, <<"M","O","U","S","E","X","2">>>>,
    <<<<"x","b","u","t","t","o","n","2">>, <<"M","O","U","S","E","X","2">>>>,
    <<<<"b","u","t","t","o","n","x","2">>, <<"M","O","U","S","E","X","2">>>>,
    <<<<"b","u","t","t","o","n","5">>, <<"M","O","U","S","E","X","2">>>> }


MOUSE_INDEX_TO_CODE ==
  { <<0, <<"M","O","U","S","E","1">>>>, <<1, <<"M","O","U","S","E","2">>>>, <<2, <<"M","O","U","S","E","3">>>>, <<3, <<"M","O","U","S","E","X","1">>>>, <<4, <<"M","O","U","S","E","X","2">>>> }


(* ----------------------------------------------------------------------- *)
(* input_events.py: normalizers                                            *)
(* ----------------------------------------------------------------------- *)

\* re.sub(r"[^a-z0-9]+", "", value.strip().lower())
simplify_token(value) ==
  SelectSeq(LowerStr(Strip(value)), LAMBDA c : IsLowerAlpha(c) \/ IsDigit(c))

\* _BUTTONS_CODE_RE  ^buttons(\d+)$
BUTTONS_CODE_RE(token) ==
  StartsWith(token, s_buttons) /\ AllDigits(Drop(token, Len(s_buttons)))

\* _GAMEPAD_BUTTON_RE  ^(?:gamepad)?button(\d+)$ ; the number group, or None
GAMEPAD_BUTTON_RE_number(token) ==
  IF StartsWith(token, s_gamepadbutton) /\ AllDigits(Drop(token, Len(s_gamepadbutton)))
    THEN Drop(token, Len(s_gamepadbutton))
  ELSE IF StartsWith(token, s_button) /\ AllDigits(Drop(token, Len(s_button)))
    THEN Drop(token, Len(s_button))
  ELSE None

\* _DIRECT_INPUT_BUTTON_RE  ^joystickoffsetbuttons(\d+)$
DIRECT_INPUT_BUTTON_RE(token) ==
  StartsWith(token, s_joystickoffsetbuttons)
    /\ AllDigits(Drop(token, Len(s_joystickoffsetbuttons)))

\* _FUNCTION_KEY_RE  ^f(\d{1,2})$
FUNCTION_KEY_RE(token) ==
  /\ StartsWith(token, <<"f">>)
  /\ Len(token) \in {2, 3}
  /\ AllDigits(Drop(token, 1))

\* _NUMPAD_KEY_RE  ^(?:numpad|num)(\d)$ ; the number group, or None
NUMPAD_KEY_RE_number(token) ==
  IF StartsWith(token, s_numpad) /\ Len(token) = Len(s_numpad) + 1
       /\ IsDigit(token[Len(token)])
    THEN <<token[Len(token)]>>
  ELSE IF StartsWith(token, s_num) /\ Len(token) = Len(s_num) + 1
       /\ IsDigit(token[Len(token)])
    THEN <<token[Len(token)]>>
  ELSE None

\* _D_KEY_RE  ^d(\d)$
D_KEY_RE(token) ==
  Len(token) = 2 /\ token[1] = "d" /\ IsDigit(token[2])

\* _KEYCODE_CHAR_RE  ^keycode\(char=['"](.)['"]\)$ ; the char group, or None
KEYCODE_CHAR_RE_char(lowered) ==
  IF /\ Len(lowered) = Len(s_keycode_char) + 4
     /\ StartsWith(lowered, s_keycode_char)
     /\ lowered[Len(s_keycode_char) + 1] \in {"'", "\""}
     /\ lowered[Len(s_keycode_char) + 3] \in {"'", "\""}
     /\ lowered[Len(s_keycode_char) + 4] = ")"
    THEN <<lowered[Len(s_keycode_char) + 2]>>
  ELSE None

\* _KEYCODE_VK_RE  ^keycode\(vk=(\d+)\)$ ; the vk group, or None
KEYCODE_VK_RE_vk(lowered) ==
  IF /\ Len(lowered) > Len(s_keycode_vk) + 1
     /\ StartsWith(lowered, s_keycode_vk)
     /\ lowered[Len(lowered)] = ")"
     /\ AllDigits(SubSeq(lowered, Len(s_keycode_vk) + 1, Len(lowered) - 1))
    THEN SubSeq(lowered, Len(s_keycode_vk) + 1, Len(lowered) - 1)
  ELSE None

\* _normalize_buttons_index without the branch for 48..57: every
\* non-negative index passes through
normalize_buttons_index_passthrough(value) ==
  IF value >= 0 THEN s_Buttons \o DigitsOf(value) ELSE None

\* _normalize_buttons_index
normalize_buttons_index(value) ==
  IF 48 <= value /\ value <= 57 THEN s_Buttons \o DigitsOf(value - 48)
  ELSE IF value >= 0 THEN s_Buttons \o DigitsOf(value)
  ELSE None

\* infer_input_source_from_code (raw is None, IntRaw or StrRaw)
infer_input_source_from_code(raw) ==
  IF raw.kind = "none" THEN NoSource
  ELSE IF raw.kind = "int" THEN
    IF \E p \in MOUSE_INDEX_TO_CODE : p[1] = raw.val THEN "mouse"
    ELSE IF ~IsNone(normalize_buttons_index(raw.val)) THEN "gamepad"
    ELSE NoSource
  ELSE
    LET text == Strip(raw.val)
        token == simplify_token(RemovePrefix(RemovePrefix(text, s_Key_dot), s_key_dot))
    IN IF text = <<>> THEN NoSource
       ELSE IF ~IsNone(Lookup(MOUSE_ALIASES, token)) \/ StartsWith(token, s_mouse)
         THEN "mouse"
       ELSE IF \/ BUTTONS_CODE_RE(token)
               \/ ~IsNone(GAMEPAD_BUTTON_RE_number(token))
               \/ DIRECT_INPUT_BUTTON_RE(token)
         THEN "gamepad"
       ELSE IF StartsWith(token, s_joystickoffsetbuttons) THEN "gamepad"
       ELSE "keyboard"

\* normalize_keyboard_code, the integer branch (also the target of the
\* keycode(vk=N) and vkN recursions)
normalize_keyboard_int(n) ==
  IF 65 <= n /\ n <= 90 THEN <<Uppers[n - 64]>>
  ELSE IF 48 <= n /\ n <= 57 THEN <<"D">> \o DigitsOf(n - 48)
  ELSE None

\* normalize_keyboard_code, from the alias lookup on (lines 271-299)
normalize_keyboard_token(token) ==
  IF token = <<>> THEN None
  ELSE IF ~IsNone(Lookup(KEYBOARD_ALIASES, token)) THEN Lookup(KEYBOARD_ALIASES, token)
  ELSE IF FUNCTION_KEY_RE(token) THEN <<"F">> \o DigitsOf(ParseInt(Drop(token, 1)))
  ELSE IF ~IsNone(NUMPAD_KEY_RE_number(token))
    THEN s_NumPad \o DigitsOf(ParseInt(NUMPAD_KEY_RE_number(token)))
  ELSE IF D_KEY_RE(token) THEN <<"D">> \o DigitsOf(ParseInt(Drop(token, 1)))
  ELSE IF Len(token) = 1 /\ IsLowerAlpha(token[1]) THEN UpperStr(token)
  ELSE IF Len(token) = 1 /\ IsDigit(token[1]) THEN <<"D">> \o token
  ELSE IF StartsWith(token, s_vk) /\ AllDigits(Drop(token, 2))
    THEN normalize_keyboard_int(ParseInt(Drop(token, 2)))
  ELSE None

\* normalize_keyboard_code
normalize_keyboard_code(raw) ==
  IF raw.kind = "none" THEN None
  ELSE IF raw.kind = "int" THEN normalize_keyboard_int(raw.val)
  ELSE
    LET text0 == Strip(raw.val)
        lowered0 == LowerStr(text0)
        prefixLen ==
          IF StartsWith(lowered0, s_key_dot) THEN Len(s_key_dot)
          ELSE IF StartsWith(lowered0, s_keys_dot) THEN Len(s_keys_dot)
          ELSE IF StartsWith(lowered0, s_keyboard_dot) THEN Len(s_keyboard_dot)
          ELSE 0
        text1 == Drop(text0, prefixLen)
        lowered == LowerStr(text1)
        kc == KEYCODE_CHAR_RE_char(lowered)
        vk == KEYCODE_VK_RE_vk(lowered)
        text2 == IF ~IsNone(kc) THEN kc ELSE text1
        text3 == IF Len(text2) = 3 /\ text2[1] = text2[3] /\ text2[1] \in {"'", "\""}
                   THEN <<text2[2]>> ELSE text2
    IN IF text0 = <<>> THEN None
       ELSE IF ~IsNone(Lookup(KEYBOARD_PUNCTUATION_ALIASES, text0))
         THEN Lookup(KEYBOARD_PUNCTUATION_ALIASES, text0)
       ELSE IF IsNone(kc) /\ ~IsNone(vk) THEN normalize_keyboard_int(ParseInt(vk))
       ELSE IF ~IsNone(Lookup(KEYBOARD_PUNCTUATION_ALIASES, text3))
         THEN Lookup(KEYBOARD_PUNCTUATION_ALIASES, text3)
       ELSE normalize_keyboard_token(simplify_token(text3))

\* normalize_mouse_code
normalize_mouse_code(raw) ==
  IF raw.kind = "none" THEN None
  ELSE IF raw.kind = "int"
    THEN IF \E p \in MOUSE_INDEX_TO_CODE : p[1] = raw.val
           THEN (CHOOSE p \in MOUSE_INDEX_TO_CODE : p[1] = raw.val)[2] ELSE None
  ELSE
    LET token == simplify_token(raw.val)
        idx(n) == IF \E p \in MOUSE_INDEX_TO_CODE : p[1] = n
                    THEN (CHOOSE p \in MOUSE_INDEX_TO_CODE : p[1] = n)[2] ELSE None
    IN IF token = <<>> THEN None
       ELSE IF ~IsNone(Lookup(MOUSE_ALIASES, token)) THEN Lookup(MOUSE_ALIASES, token)
       ELSE IF AllDigits(token) THEN idx(ParseInt(token))
       ELSE IF /\ StartsWith(token, s_mousex) /\ AllDigits(Drop(token, 6))
               /\ ParseInt(Drop(token, 6)) \in {1, 2}
         THEN s_MOUSEX \o DigitsOf(ParseInt(Drop(token, 6)))
       ELSE IF StartsWith(token, s_mouse) /\ AllDigits(Drop(token, 5))
         THEN idx(ParseInt(Drop(token, 5)) - 1)
       ELSE None

\* normalize_gamepad_code
normalize_gamepad_code(raw) ==
  IF raw.kind = "none" THEN None
  ELSE IF raw.kind = "int" THEN normalize_buttons_index(raw.val)
  ELSE
    LET token0 == simplify_token(raw.val)
        token == IF StartsWith(token0, s_joystickoffset)
                   THEN Drop(token0, Len(s_joystickoffset)) ELSE token0
    IN IF token0 = <<>> THEN None
       ELSE IF BUTTONS_CODE_RE(token)
         THEN normalize_buttons_index(ParseInt(Drop(token, Len(s_buttons))))
       ELSE IF ~IsNone(GAMEPAD_BUTTON_RE_number(token))
         THEN normalize_buttons_index(ParseInt(GAMEPAD_BUTTON_RE_number(token)))
       ELSE IF DIRECT_INPUT_BUTTON_RE(token)
         THEN normalize_buttons_index(ParseInt(Drop(token, Len(s_joystickoffsetbuttons))))
       ELSE IF StartsWith(token, s_button) /\ AllDigits(Drop(token, 6))
         THEN normalize_buttons_index(ParseInt(Drop(token, 6)))
       ELSE IF AllDigits(token) THEN normalize_buttons_index(ParseInt(token))
       ELSE None

\* normalize_input_code(raw_code, source=...): source is a family or None
normalize_input_code(raw, source) ==
  LET resolved_source == IF source # NoSource THEN source
                         ELSE infer_input_source_from_code(raw)
  IN IF resolved_source = NoSource THEN None
     ELSE IF resolved_source = "keyboard" THEN normalize_keyboard_code(raw)
     ELSE IF resolved_source = "mouse" THEN normalize_mouse_code(raw)
     ELSE normalize_gamepad_code(raw)

\* InputEvent.__post_init__: the stored code is the normalized code; the
\* construction raises ValueError (modelled as ok = FALSE) when it is None
InputEvent(raw, source, timestamp, pressed) ==
  [ code      |-> normalize_input_code(raw, source),
    source    |-> source,
    timestamp |-> timestamp,
    pressed   |-> pressed,
    ok        |-> ~IsNone(normalize_input_code(raw, source)) ]

(* ----------------------------------------------------------------------- *)
(* Inputs tried by the specifications                                      *)
(* ----------------------------------------------------------------------- *)

k_Buttons4 == StrRaw(<<"B","u","t","t","o","n","s","4">>)

k_buttons4 == StrRaw(<<"b","u","t","t","o","n","s","4">>)

k_buttons0 == StrRaw(<<"b","u","t","t","o","n","s","0">>)

k_GamePadButton0 == StrRaw(<<"G","a","m","e","P","a","d"," ","B","u","t","t","o","n"," ","0">>)

k_F8 == StrRaw(<<"F","8">>)

k_f8 == StrRaw(<<"f","8">>)

k_MOUSE2 == StrRaw(<<"M","O","U","S","E","2">>)

k_right == StrRaw(<<"r","i","g","h","t">>)

\* <<select_key, skill_key>> of the configured rules that are tried
RuleKeys ==
  { <<NoneRaw, k_MOUSE2>>,            \* plain rule
    <<k_Buttons4, k_buttons0>>,       \* gamepad combo
    <<k_F8, k_GamePadButton0>>,       \* keyboard select, legacy gamepad label
    <<k_Buttons4, k_buttons4>> }      \* select key and skill key are one code

\* the events that are tried: <<raw code, source>> as given to the factories
EventInputs ==
  { <<k_buttons0, "gamepad">>, <<IntRaw(4), "gamepad">>,
    <<k_f8, "keyboard">>, <<k_right, "mouse">> }

\* the timestamps events carry
Timestamps == {0, 1}

\* every InputEvent the factories build from the inputs above
AllEvents ==
  { ev \in { InputEvent(inp[1], inp[2], ts, pr) :
               inp \in EventInputs, ts \in Timestamps, pr \in BOOLEAN } : ev.ok }

\* every key string a configured rule uses
ConfigKeys == {rk[1] : rk \in RuleKeys} \cup {rk[2] : rk \in RuleKeys}

k_GamePadButton4 == StrRaw(<<"G","a","m","e","P","a","d"," ","B","u","t","t","o","n"," ","4">>)

k_Key_f8 == StrRaw(<<"K","e","y",".","f","8">>)

k_4 == StrRaw(<<"4">>)

k_mouse9 == StrRaw(<<"m","o","u","s","e","9">>)

k_blank == StrRaw(<<" "," ">>)

\* the keys a single rule is configured with when matching is examined:
\* canonical codes, legacy and alias forms of them, a digit that names a
\* keyboard key and not a button, and keys that cannot be normalized
MatchKeys ==
  ConfigKeys \cup {k_GamePadButton4, k_Key_f8, k_f8, k_right, k_4, k_mouse9, k_blank}

(* ----------------------------------------------------------------------- *)
(* models.py: SkillItem hold-state behaviour                               *)
(* ----------------------------------------------------------------------- *)

\* SkillItem(...): _select_key_held defaults to False
SkillItem(id, is_enabled, select_key, skill_key) ==
  [ id |-> id, is_enabled |-> is_enabled, select_key |-> select_key,
    skill_key |-> skill_key, select_key_held |-> FALSE ]

\* SkillItem.skill_key_pressed
skill_key_pressed(item) == item.select_key.kind = "none" \/ item.select_key_held

\* SkillItem.select_key_pressed
select_key_pressed(item) ==
  IF item.select_key.kind # "none" THEN [item EXCEPT !.select_key_held = TRUE] ELSE item

\* mutant: a release of the select key marks it held
select_key_released_held(item) == [item EXCEPT !.select_key_held = TRUE]

\* SkillItem.select_key_released
select_key_released(item) == [item EXCEPT !.select_key_held = FALSE]

\* SkillItem.reset_keys
reset_keys(item) == [item EXCEPT !.select_key_held = FALSE]

(* ----------------------------------------------------------------------- *)
(* tracker_engine.py                                                       *)
(* ----------------------------------------------------------------------- *)

\* a match that renormalizes the configured key in the family of the event
matches_event_code_eventfamily(config_code, event) ==
  IF config_code.kind = "none" THEN FALSE
  ELSE
    LET normalized == normalize_input_code(config_code, event.source)
    IN IF IsNone(normalized) THEN FALSE
       ELSE LowerStr(normalized) = LowerStr(event.code)

\* _matches_event_code(config_code, event)
matches_event_code(config_code, event) ==
  IF config_code.kind = "none" THEN FALSE
  ELSE
    LET inferred == infer_input_source_from_code(config_code)
        source == IF inferred # NoSource THEN inferred ELSE event.source
        normalized == normalize_input_code(config_code, source)
    IN IF IsNone(normalized) THEN FALSE
       ELSE LowerStr(normalized) = LowerStr(event.code)

\* _matches_event_code tabulated once over the keys and events in use
MatchTable ==
  [p \in MatchKeys \X AllEvents |-> matches_event_code(p[1], p[2])] @@ <<>>

matches(config_code, event) == MatchTable[<<config_code, event>>]

RECURSIVE press_triggered_oneloop(_, _, _)
\* mutant: one loop that arms a rule's select key and then checks its skill key
press_triggered_oneloop(items, event, i) ==
  IF i > Len(items) THEN <<>>
  ELSE IF ~items[i].is_enabled THEN press_triggered_oneloop(items, event, i + 1)
  ELSE IF /\ matches(items[i].skill_key, event)
          /\ skill_key_pressed(IF matches(items[i].select_key, event)
                                 THEN select_key_pressed(items[i]) ELSE items[i])
    THEN <<i>> \o press_triggered_oneloop(items, event, i + 1)
  ELSE press_triggered_oneloop(items, event, i + 1)

RECURSIVE press_triggered(_, _, _)
\* process_event, first loop of a press (lines 54-59): the items to trigger,
\* as positions in skill_items, scanning from position i
press_triggered(items, event, i) ==
  IF i > Len(items) THEN <<>>
  ELSE IF ~items[i].is_enabled THEN press_triggered(items, event, i + 1)
  ELSE IF matches(items[i].skill_key, event) /\ skill_key_pressed(items[i])
    THEN <<i>> \o press_triggered(items, event, i + 1)
  ELSE press_triggered(items, event, i + 1)

\* mutant: the arming loop does not skip disabled rules
press_armed_all(items, event) ==
  [i \in 1..Len(items) |->
     IF matches(items[i].select_key, event)
       THEN select_key_pressed(items[i]) ELSE items[i]]

\* process_event, second loop of a press (lines 61-65)
press_armed(items, event) ==
  [i \in 1..Len(items) |->
     IF items[i].is_enabled /\ matches(items[i].select_key, event)
       THEN select_key_pressed(items[i]) ELSE items[i]]

\* mutant: a release leaves the held flags as they are
release_items_keep(items, event) == items

\* process_event, the release branch (lines 46-52)
release_items(items, event) ==
  [i \in 1..Len(items) |->
     IF items[i].is_enabled /\ matches(items[i].select_key, event)
       THEN select_key_released(items[i]) ELSE items[i]]

\* mutant: the select keys are armed before the trigger checks
process_event_triggered_armfirst(items, event) ==
  IF ~event.pressed THEN <<>> ELSE press_triggered(press_armed(items, event), event, 1)

\* TrackerInputEngine.process_event: the returned trigger list
process_event_triggered(items, event) ==
  IF ~event.pressed THEN <<>> ELSE press_triggered(items, event, 1)

\* TrackerInputEngine.process_event: the skill items after the call
process_event_items(items, event) ==
  IF ~event.pressed THEN release_items(items, event) ELSE press_armed(items, event)

(* ----------------------------------------------------------------------- *)
(* State                                                                   *)
(* ----------------------------------------------------------------------- *)

VARIABLES
  skill_items,    \* TrackerInputEngine.skill_items (each with its held flag)
  eng_event,      \* the event of the last process_event call
  eng_triggered,  \* the list it returned (positions in skill_items)
  eng_pre,        \* skill_items as they were when that call began
  down,           \* codes pressed and not released since, by processed events
  pre_down,       \* down as it was when the last call began
  eng_fresh       \* positions of the rules for which a press of the select
                  \* key has been processed since the rule was last enabled

engineVars ==
  <<skill_items, eng_event, eng_triggered, eng_pre, down, pre_down, eng_fresh>>

VARIABLES
  cd_states,       \* CountdownService._states, a dict in insertion order
  cd_subscribers,  \* CountdownService._subscribers
  cd_op,           \* the last CountdownService call: its name, arguments, outcome
  cd_events,       \* the events that call built, in order
  cd_deliveries    \* the <<callback, event>> invocations that call made, in order

countdownVars == <<cd_states, cd_subscribers, cd_op, cd_events, cd_deliveries>>

VARIABLES
  is_running,         \* InputRouter._is_running
  accepting_events,   \* InputRouter._accepting_events
  worker_stop_event,  \* InputRouter._worker_stop_event is set
  event_queue,        \* InputRouter._event_queue (Sentinel is the None marker)
  worker_thread,      \* InputRouter._worker_thread: a worker id, or 0 for None
  a_running,          \* per adapter: its is_running
  callers,            \* the threads that call the router's public methods
  c_pc,               \* per caller: where it is in its current call
  c_call,             \* per caller: the method it is in, or was last in
  c_errors,           \* per caller: stop()'s adapter_errors (adapter ids)
  c_exc,              \* per caller: adapter whose start() raises_left, 0 if none
  c_arg,              \* per caller: the argument of set_skill_items
  c_worker,           \* per caller: _shutdown_worker's local worker, 0 for None
  c_result,           \* per caller: how its last call ended
  c_log,              \* per caller: the steps its current or last call took
  calls_left,         \* public calls the callers have yet to make
  w_pc,               \* per worker thread: position in _run_worker
  w_event,            \* per worker thread: the event it dequeued
  w_triggered,        \* per worker thread: _dispatch_event's triggered (ids)
  w_exc,              \* per worker thread: step whose exception is in flight
  p_pc,               \* per route_input_event call: its position, "raised"
                      \* once it has ended with the TypeError
  p_arg,              \* per route_input_event call: its argument
  p_session,          \* per route_input_event call that found the accepting
                      \* flag set: the number of start() calls that had begun
                      \* a session by then, 0 for the other calls
  routed,             \* calls of route_input_event begun so far
  events_left,        \* calls of route_input_event yet to begin
  raises_left,        \* exceptions matching and the subscribers have yet to raise
  enq_log,            \* ids of the events put on the queue, in put order
  late_puts,          \* ids of the events put on the queue while a stop() was
                      \* between clearing the accepting flag and returning
  w_calls,            \* per worker thread: the calls it made for its event,
                      \* <<callee, argument, outcome>> in call order
  match_log           \* ids of the events given to process_event, in call order

coreVars ==
  <<is_running, accepting_events, worker_stop_event, event_queue, worker_thread>>

callerVars ==
  <<callers, c_pc, c_call, c_errors, c_exc, c_arg, c_worker, c_result, c_log, calls_left>>

workerVars == <<w_pc, w_event, w_triggered, w_exc, w_calls, raises_left, match_log>>

producerVars == <<p_pc, p_arg, p_session, routed, events_left, enq_log, late_puts>>

routerVars == <<coreVars, a_running, callerVars, workerVars, producerVars>>

(* ----------------------------------------------------------------------- *)
(* Device adapters (input_router.py): KeyboardInputAdapter,                *)
(* MouseInputAdapter and GamepadInputAdapter, one adapter object driven by *)
(* its controlling thread, its capture thread and its polling threads      *)
(* ----------------------------------------------------------------------- *)
VARIABLES
  ad_kind,                \* the class of the adapter object
  ad_is_running,          \* _is_running
  ad_listener,            \* _listener: 0 for None, else the listener's number
  ad_listeners,           \* every listener the factory made, with its call counts
  ad_thread,              \* _thread: 0 for None, else the thread's number
  ad_threads,             \* every polling thread made: "created", "alive", "dead", "crashed"
  ad_stop_event,          \* _stop_event
  ad_rt,                  \* the pygame runtime: the adapter's fields and pygame's own state
  ad_axis_button_states,  \* _axis_button_states: the virtual buttons latched as pressed
  ad_op,                  \* the last start() or stop() call and how it ended
  ad_emit,                \* the last run of the callback path and how it ended
  ad_axis,                \* the last axis reading handled and what it did
  ad_axis_log,            \* the virtual-button events emitted in the running session
  ad_calls_left,          \* start()/stop() calls left in this run
  ad_events_left          \* raw inputs left in this run

adapterVars ==
  <<ad_kind, ad_is_running, ad_listener, ad_listeners, ad_thread, ad_threads,
    ad_stop_event, ad_rt, ad_axis_button_states, ad_op, ad_emit, ad_axis,
    ad_axis_log, ad_calls_left, ad_events_left>>

(* ----------------------------------------------------------------------- *)
(* Code normalization (input_events.py) applied to one raw code: the raw   *)
(* code, the canonical code it gives and the canonical code of that code   *)
(* ----------------------------------------------------------------------- *)
VARIABLES
  nz_family,   \* the normalizer: "keyboard" or "gamepad"
  nz_raw,      \* the raw code handed to the normalizer
  nz_code,     \* what the normalizer returned for nz_raw
  nz_again,    \* what the normalizer returned for nz_code
  nz_step      \* "raw", "normalized" or "renormalized"

normVars == <<nz_family, nz_raw, nz_code, nz_again, nz_step>>

(* ----------------------------------------------------------------------- *)
(* TrackerRuntimeController (tracker_runtime.py): the controller, the      *)
(* router it owns seen through the calls the controller makes, the         *)
(* countdown services it creates and the queue of its trigger signal       *)
(* ----------------------------------------------------------------------- *)
VARIABLES
  rt_skill_items,        \* _skill_items: the tracked SkillItem objects, by id
  rt_held,               \* _select_key_held of each SkillItem object
  rt_router,             \* the router: is_running and the skill items it was given
  rt_countdown_service,  \* _countdown_service: 0 for None, else the service's number
  rt_services,           \* _states of every CountdownService the factory made
  rt_pending,            \* payloads of _triggered_skills_signal queued for the slot
  rt_handled,            \* the last payload the slot was called with
  rt_op,                 \* the last start() or stop() call and how it ended
  rt_clock,              \* the last reading of the services' time provider
  rt_calls_left,         \* start()/stop()/set_skill_items() calls left in this run
  rt_triggers_left       \* trigger notifications left in this run

runtimeVars ==
  <<rt_skill_items, rt_held, rt_router, rt_countdown_service, rt_services,
    rt_pending, rt_handled, rt_op, rt_clock, rt_calls_left, rt_triggers_left>>

vars == <<engineVars, countdownVars, routerVars, adapterVars, normVars, runtimeVars>>

Range(s) == {s[i] : i \in 1..Len(s)}

\* sequences over S of length 1..n
SeqsUpTo(S, n) == UNION {[1..k -> S] : k \in 1..n}

(* ----------------------------------------------------------------------- *)
(* Bounds and inputs of the tracker engine specification                   *)
(* ----------------------------------------------------------------------- *)

MaxRules == 2

NoEvent == [code |-> None, source |-> NoSource, timestamp |-> 0,
            pressed |-> FALSE, ok |-> FALSE]

EngineIdle ==
  /\ eng_event = NoEvent
  /\ eng_triggered = <<>>
  /\ eng_pre = <<>>
  /\ down = {}
  /\ pre_down = {}
  /\ eng_fresh = {}

\* an engine constructed over up to MaxRules freshly built SkillItems
EngineInit ==
  /\ \E n \in 1..MaxRules :
       \E keys \in [1..n -> RuleKeys], en \in [1..n -> BOOLEAN] :
         skill_items = [i \in 1..n |-> SkillItem(i, en[i], keys[i][1], keys[i][2])]
  /\ EngineIdle

\* one call of TrackerInputEngine.process_event(event) with its bookkeeping
EngineApply(event) ==
  /\ eng_pre' = skill_items
  /\ eng_event' = event
  /\ eng_triggered' = process_event_triggered(skill_items, event)
  /\ skill_items' = process_event_items(skill_items, event)
  /\ pre_down' = down
  /\ eng_fresh' =
       IF event.pressed
         THEN eng_fresh \cup {i \in 1..Len(skill_items) :
                                skill_items[i].is_enabled
                                /\ matches(skill_items[i].select_key, event)}
         ELSE eng_fresh
  /\ down' = IF event.pressed THEN down \cup {event.code} ELSE down \ {event.code}

EngPress ==
  /\ \E event \in AllEvents :
       event.pressed /\ event.timestamp = 0 /\ EngineApply(event)
  /\ UNCHANGED <<countdownVars, routerVars, adapterVars, normVars, runtimeVars>>

EngRelease ==
  /\ \E event \in AllEvents :
       ~event.pressed /\ event.timestamp = 0 /\ EngineApply(event)
  /\ UNCHANGED <<countdownVars, routerVars, adapterVars, normVars, runtimeVars>>

EngineNext == EngPress \/ EngRelease

\* the owner of a rule assigns its is_enabled between two process_event
\* calls, as main_window.py line 688 does; nothing else of the rule changes
EngSetEnabled ==
  /\ \E i \in 1..Len(skill_items), value \in BOOLEAN :
       /\ value # skill_items[i].is_enabled
       /\ skill_items' = [skill_items EXCEPT ![i].is_enabled = value]
       /\ eng_fresh' = IF value THEN eng_fresh \ {i} ELSE eng_fresh
  /\ eng_event' = NoEvent
  /\ eng_triggered' = <<>>
  /\ eng_pre' = <<>>
  /\ UNCHANGED <<down, pre_down, countdownVars, routerVars, adapterVars, normVars, runtimeVars>>

EngineEditNext == EngPress \/ EngRelease \/ EngSetEnabled

MaxEditRules == 1

\* an engine constructed over up to MaxEditRules SkillItems, for the runs in
\* which the rules are edited
EngineEditInit ==
  /\ \E n \in 1..MaxEditRules :
       \E keys \in [1..n -> RuleKeys], en \in [1..n -> BOOLEAN] :
         skill_items = [i \in 1..n |-> SkillItem(i, en[i], keys[i][1], keys[i][2])]
  /\ EngineIdle

\* an engine over one enabled rule without a select key, its skill key drawn
\* from MatchKeys
EngineMatchInit ==
  /\ \E key \in MatchKeys : skill_items = <<SkillItem(1, TRUE, NoneRaw, key)>>
  /\ EngineIdle

(* ----------------------------------------------------------------------- *)
(* Tracker engine properties                                               *)
(* ----------------------------------------------------------------------- *)

\* the canonical code a configured key stands for
CanonOfKey(key) == normalize_input_code(key, infer_input_source_from_code(key))

\* C1: after a press event, the returned trigger list holds exactly the rules
\* that were enabled, whose skill key matches the event code and whose select
\* key is null or was held before the event, in configured order, each once.
C1_TriggerListExact ==
  (eng_event.ok /\ eng_event.pressed) =>
    eng_triggered =
      SelectSeq([i \in 1..Len(eng_pre) |-> i],
                LAMBDA i : /\ eng_pre[i].is_enabled
                           /\ matches(eng_pre[i].skill_key, eng_event)
                           /\ \/ eng_pre[i].select_key.kind = "none"
                              \/ eng_pre[i].select_key_held)

\* a press fired a combo rule that was armed and skipped a matching rule
\* that was not
C1_Witness ==
  /\ eng_event.ok /\ eng_event.pressed
  /\ \E i \in Range(eng_triggered) : eng_pre[i].select_key.kind # "none"
  /\ \E j \in 1..Len(eng_pre) :
       /\ j \notin Range(eng_triggered)
       /\ eng_pre[j].is_enabled
       /\ matches(eng_pre[j].skill_key, eng_event)

\* C2: a press of K fires an enabled combo rule (S # K) if and only if S was
\* pressed earlier and not released since.
C2_ComboIffSelectHeld ==
  (eng_event.ok /\ eng_event.pressed) =>
    \A i \in 1..Len(eng_pre) :
      ( /\ eng_pre[i].is_enabled
        /\ eng_pre[i].select_key.kind # "none"
        /\ CanonOfKey(eng_pre[i].select_key) # CanonOfKey(eng_pre[i].skill_key)
        /\ matches(eng_pre[i].skill_key, eng_event) )
      => (i \in Range(eng_triggered) <=> CanonOfKey(eng_pre[i].select_key) \in pre_down)

\* K pressed while S is held fires the combo rule
C2_Witness ==
  /\ eng_event.ok /\ eng_event.pressed
  /\ \E i \in Range(eng_triggered) :
       /\ eng_pre[i].select_key.kind # "none"
       /\ CanonOfKey(eng_pre[i].select_key) # CanonOfKey(eng_pre[i].skill_key)
       /\ CanonOfKey(eng_pre[i].select_key) \in pre_down

(* ----------------------------------------------------------------------- *)
(* countdown_service.py                                                    *)
(* Times and durations are counted in whole ticks.                         *)
(* ----------------------------------------------------------------------- *)

Max(a, b) == IF a >= b THEN a ELSE b

\* dict operations on _states, kept as the sequence of its values in
\* insertion order (each value carries its key, skill_id)
DictHas(d, skill_id) == \E i \in 1..Len(d) : d[i].skill_id = skill_id

DictGet(d, skill_id) == d[CHOOSE i \in 1..Len(d) : d[i].skill_id = skill_id]

DictPop(d, skill_id) == SelectSeq(d, LAMBDA st : st.skill_id # skill_id)

\* _CountdownState(skill_id, duration_seconds, started_at, ends_at)
CountdownState(skill_id, duration_seconds, now) ==
  [ skill_id |-> skill_id, duration_seconds |-> duration_seconds,
    started_at |-> now, ends_at |-> now + duration_seconds ]

\* mutant: a refresh changes the duration and leaves the schedule as it was
state_refresh_keep(st, duration_seconds, now) ==
  [st EXCEPT !.duration_seconds = duration_seconds]

\* _CountdownState.refresh
state_refresh(st, duration_seconds, now) ==
  [st EXCEPT !.duration_seconds = duration_seconds,
             !.started_at = now,
             !.ends_at = now + duration_seconds]

\* _CountdownState.remaining_seconds
remaining_seconds(st, now) == Max(0, st.ends_at - now)

CountdownEvent(type, skill_id, duration_seconds, remaining, completed) ==
  [ type |-> type, skill_id |-> skill_id, duration_seconds |-> duration_seconds,
    remaining_seconds |-> remaining, completed |-> completed ]

\* CountdownService._build_updated_event
build_updated_event(st, now) ==
  CountdownEvent("updated", st.skill_id, st.duration_seconds,
                 remaining_seconds(st, now), FALSE)

\* CountdownService.active_count
active_count(d) == Len(d)

\* mutant: a negative duration is clamped to zero
validate_duration_clamp(duration_seconds) ==
  [ok |-> TRUE, value |-> Max(0, duration_seconds)]

\* CountdownService._validate_duration: ValueError (ok = FALSE) for a
\* negative value, else the value
validate_duration(duration_seconds) ==
  [ok |-> ~(duration_seconds < 0), value |-> duration_seconds]

\* mutant: a refresh always stores a new state, also for a known skill_id
refresh_states_append(d, skill_id, duration_seconds, now) ==
  IF duration_seconds = 0 THEN DictPop(d, skill_id)
  ELSE Append(d, CountdownState(skill_id, duration_seconds, now))

\* CountdownService.refresh: _states after the call (duration_seconds >= 0)
refresh_states(d, skill_id, duration_seconds, now) ==
  IF duration_seconds = 0 THEN DictPop(d, skill_id)
  ELSE IF ~DictHas(d, skill_id)
    THEN Append(d, CountdownState(skill_id, duration_seconds, now))
  ELSE [i \in 1..Len(d) |->
          IF d[i].skill_id = skill_id
            THEN state_refresh(d[i], duration_seconds, now) ELSE d[i]]

\* mutant: a refresh with duration zero reports an update of a timer that
\* has nothing left
refresh_event_updated(d, skill_id, duration_seconds, now) ==
  IF duration_seconds = 0
    THEN CountdownEvent("updated", skill_id, 0, 0, FALSE)
  ELSE build_updated_event(
         DictGet(refresh_states(d, skill_id, duration_seconds, now), skill_id), now)

\* CountdownService.refresh: the event it emits (duration_seconds >= 0)
refresh_event(d, skill_id, duration_seconds, now) ==
  IF duration_seconds = 0
    THEN CountdownEvent("removed", skill_id, 0, 0, TRUE)
  ELSE build_updated_event(
         DictGet(refresh_states(d, skill_id, duration_seconds, now), skill_id), now)

\* mutant: a removal always reports the time that was left
remove_event_timeleft(d, skill_id, completed, now) ==
  CountdownEvent("removed", skill_id, DictGet(d, skill_id).duration_seconds,
                 remaining_seconds(DictGet(d, skill_id), now), completed)

\* CountdownService.remove: the event it emits for an existing timer
remove_event(d, skill_id, completed, now) ==
  CountdownEvent("removed", skill_id, DictGet(d, skill_id).duration_seconds,
                 IF ~completed THEN remaining_seconds(DictGet(d, skill_id), now) ELSE 0,
                 completed)

\* mutant: a tick removes no timer
emit_updates_states_keep(d, now) == d

\* CountdownService.emit_updates: _states after the call
emit_updates_states(d, now) ==
  SelectSeq(d, LAMBDA st : ~(remaining_seconds(st, now) <= 0))

\* CountdownService.emit_updates: the events, one per timer in dict order
emit_updates_events(d, now) ==
  [i \in 1..Len(d) |->
     IF remaining_seconds(d[i], now) <= 0
       THEN CountdownEvent("removed", d[i].skill_id, d[i].duration_seconds, 0, TRUE)
     ELSE build_updated_event(d[i], now)]

\* mutant: the newest subscriber is called first
emit_all_newest_first(subscribers, events) ==
  [k \in 1..(Len(events) * Len(subscribers)) |->
     << subscribers[Len(subscribers) - ((k - 1) % Len(subscribers))],
        events[((k - 1) \div Len(subscribers)) + 1] >>]

RECURSIVE emit_all(_, _)
\* CountdownService._emit for each event in turn: every subscriber is called
\* with the event, in subscription order
emit_all(subscribers, events) ==
  IF events = <<>> THEN <<>>
  ELSE [i \in 1..Len(subscribers) |-> <<subscribers[i], Head(events)>>]
         \o emit_all(subscribers, Tail(events))

(* Bounds and inputs of the countdown specification *)

MaxSkillId == 2

MaxNow == 1

SkillIds == 1..MaxSkillId

\* durations tried: negative (rejected), zero (removal) and positive
Durations == {-1, 0, 1, 2}

Nows == 0..MaxNow

Callbacks == {"cbA", "cbB"}

\* existed: whether skill_id had a timer when the call began
NoOp == [name |-> "none", skill_id |-> 0, duration_seconds |-> 0, now |-> 0,
         completed |-> FALSE, existed |-> FALSE, result |-> "none"]

\* CountdownService.__init__
CountdownInit ==
  /\ cd_states = <<>>
  /\ cd_subscribers = <<>>
  /\ cd_op = NoOp
  /\ cd_events = <<>>
  /\ cd_deliveries = <<>>

\* refresh(skill_id, duration_seconds, now) for a skill_id among ids
CdRefreshOf(ids) ==
  \E skill_id \in ids, duration_seconds \in Durations, now \in Nows :
    IF ~validate_duration(duration_seconds).ok THEN
      \* _validate_duration raises ValueError before anything is changed
      /\ cd_op' = [name |-> "refresh", skill_id |-> skill_id,
                   duration_seconds |-> duration_seconds, now |-> now,
                   completed |-> FALSE, existed |-> DictHas(cd_states, skill_id),
                   result |-> "ValueError"]
      /\ cd_events' = <<>>
      /\ cd_deliveries' = <<>>
      /\ UNCHANGED <<cd_states, cd_subscribers>>
    ELSE
      /\ cd_states' = refresh_states(cd_states, skill_id,
                                     validate_duration(duration_seconds).value, now)
      /\ cd_events' = <<refresh_event(cd_states, skill_id,
                                      validate_duration(duration_seconds).value, now)>>
      /\ cd_deliveries' = emit_all(cd_subscribers, cd_events')
      /\ cd_op' = [name |-> "refresh", skill_id |-> skill_id,
                   duration_seconds |-> duration_seconds, now |-> now,
                   completed |-> FALSE, existed |-> DictHas(cd_states, skill_id),
                   result |-> "event"]
      /\ UNCHANGED cd_subscribers

\* remove(skill_id, completed, now) for a skill_id among ids
CdRemoveOf(ids) ==
  \E skill_id \in ids, completed \in BOOLEAN, now \in Nows :
    /\ cd_op' = [name |-> "remove", skill_id |-> skill_id, duration_seconds |-> 0,
                 now |-> now, completed |-> completed,
                 existed |-> DictHas(cd_states, skill_id),
                 result |-> IF DictHas(cd_states, skill_id) THEN "event" ELSE "None"]
    /\ cd_states' = DictPop(cd_states, skill_id)
    /\ cd_events' = IF DictHas(cd_states, skill_id)
                      THEN <<remove_event(cd_states, skill_id, completed, now)>>
                      ELSE <<>>
    /\ cd_deliveries' = emit_all(cd_subscribers, cd_events')
    /\ UNCHANGED cd_subscribers

CdEmitUpdates ==
  \E now \in Nows :
    /\ cd_op' = [name |-> "emit_updates", skill_id |-> 0, duration_seconds |-> 0,
                 now |-> now, completed |-> FALSE, existed |-> FALSE,
                 result |-> "list"]
    /\ cd_states' = emit_updates_states(cd_states, now)
    /\ cd_events' = emit_updates_events(cd_states, now)
    /\ cd_deliveries' = emit_all(cd_subscribers, cd_events')
    /\ UNCHANGED cd_subscribers

CdSubscribe ==
  \E callback \in Callbacks :
    /\ cd_subscribers' = IF callback \notin Range(cd_subscribers)
                           THEN Append(cd_subscribers, callback) ELSE cd_subscribers
    /\ cd_op' = [NoOp EXCEPT !.name = "subscribe"]
    /\ cd_events' = <<>>
    /\ cd_deliveries' = <<>>
    /\ UNCHANGED cd_states

CdUnsubscribe ==
  \E callback \in Callbacks :
    /\ cd_subscribers' = SelectSeq(cd_subscribers, LAMBDA c : c # callback)
    /\ cd_op' = [NoOp EXCEPT !.name = "unsubscribe"]
    /\ cd_events' = <<>>
    /\ cd_deliveries' = <<>>
    /\ UNCHANGED cd_states

CdRefresh == CdRefreshOf(SkillIds) /\ UNCHANGED <<engineVars, routerVars, adapterVars, normVars, runtimeVars>>

CdRemove == CdRemoveOf(SkillIds) /\ UNCHANGED <<engineVars, routerVars, adapterVars, normVars, runtimeVars>>

CdTick == CdEmitUpdates /\ UNCHANGED <<engineVars, routerVars, adapterVars, normVars, runtimeVars>>

CountdownNext == CdRefresh \/ CdRemove \/ CdTick

\* the same service with subscribers coming and going, over two skill ids
SubSkillIds == {1, 2}

CdSubRefresh == CdRefreshOf(SubSkillIds) /\ UNCHANGED <<engineVars, routerVars, adapterVars, normVars, runtimeVars>>

CdSubRemove == CdRemoveOf(SubSkillIds) /\ UNCHANGED <<engineVars, routerVars, adapterVars, normVars, runtimeVars>>

CdSubTick == CdEmitUpdates /\ UNCHANGED <<engineVars, routerVars, adapterVars, normVars, runtimeVars>>

CdSubSubscribe == CdSubscribe /\ UNCHANGED <<engineVars, routerVars, adapterVars, normVars, runtimeVars>>

CdSubUnsubscribe == CdUnsubscribe /\ UNCHANGED <<engineVars, routerVars, adapterVars, normVars, runtimeVars>>

CountdownSubNext ==
  CdSubRefresh \/ CdSubRemove \/ CdSubTick \/ CdSubSubscribe \/ CdSubUnsubscribe

(* ----------------------------------------------------------------------- *)
(* input_router.py: InputRouter                                            *)
(* ----------------------------------------------------------------------- *)

\* the default adapter set: keyboard, mouse, gamepad
NumAdapters == 3

MaxCalls == 2

MaxEvents == 1

MaxRaises == 1

MaxCallers == 2

Adapters == 1..NumAdapters

\* the calls of route_input_event, numbered in the order they begin; each
\* one runs on the thread of the adapter that delivers the event
EventIds == 1..(MaxEvents + 1)

\* a start() makes one worker thread, so there are no more than calls
Workers == 1..(MaxCalls + 1)

CallerIds == 1..MaxCallers

\* the None marker that _shutdown_worker puts on the queue
Sentinel == [eid |-> 0, ev |-> NoEvent]

\* the events the adapters deliver, in the order of their delivery: select
\* press, skill press, select release; the first carries the latest timestamp
RouterEventList ==
  << InputEvent(IntRaw(4), "gamepad", 1, TRUE),
     InputEvent(k_buttons0, "gamepad", 0, TRUE),
     InputEvent(IntRaw(4), "gamepad", 0, FALSE) >>

RouterEventOf(eid) == RouterEventList[((eid - 1) % Len(RouterEventList)) + 1]

\* the rules the engine is constructed with: one gamepad combo
RouterRules == <<SkillItem(1, TRUE, k_Buttons4, k_buttons0)>>

\* the lists set_skill_items is called with
RouterRuleLists == { <<>>, <<SkillItem(2, TRUE, NoneRaw, k_buttons0)>> }

\* positions of a worker that is inside _dispatch_event or the error callback
DispatchPcs == {"match", "arm", "on_event", "on_triggered", "on_error"}

\* threading.Thread.is_alive() of worker w
IsAlive(w) == w_pc[w] \notin {"unborn", "dead", "crashed"}

\* InputRouter.__init__, lines 562-593; the threads cs go on to make ncalls
\* public calls_left, the adapters to deliver nevents events, and matching and the
\* subscribers to raise nraises times
RouterInit(cs, ncalls, nevents, nraises) ==
  /\ is_running = FALSE
  /\ accepting_events = FALSE
  /\ worker_stop_event = FALSE
  /\ event_queue = <<>>
  /\ worker_thread = 0
  /\ a_running = [a \in Adapters |-> FALSE]
  /\ callers = cs
  /\ c_pc = [c \in CallerIds |-> "idle"]
  /\ c_call = [c \in CallerIds |-> "none"]
  /\ c_errors = [c \in CallerIds |-> <<>>]
  /\ c_exc = [c \in CallerIds |-> 0]
  /\ c_arg = [c \in CallerIds |-> <<>>]
  /\ c_worker = [c \in CallerIds |-> 0]
  /\ c_result = [c \in CallerIds |-> "none"]
  /\ c_log = [c \in CallerIds |-> <<>>]
  /\ calls_left = ncalls
  /\ w_pc = [w \in Workers |-> "unborn"]
  /\ w_event = [w \in Workers |-> Sentinel]
  /\ w_triggered = [w \in Workers |-> <<>>]
  /\ w_exc = [w \in Workers |-> "none"]
  /\ p_pc = [e \in EventIds |-> "idle"]
  /\ p_arg = [e \in EventIds |-> NoEvent]
  /\ p_session = [e \in EventIds |-> 0]
  /\ routed = 0
  /\ events_left = nevents
  /\ raises_left = nraises
  /\ enq_log = <<>>
  /\ late_puts = {}
  /\ w_calls = [w \in Workers |-> <<>>]
  /\ match_log = <<>>

\* a router nobody calls
RouterIdle == RouterInit({}, 0, 0, 0)

Log(c, entries) == c_log' = [c_log EXCEPT ![c] = @ \o entries]

Entries(name, as) == [i \in 1..Len(as) |-> <<name, as[i]>>]

\* the adapters in registration order, self._adapters
RegisteredAdapters == [i \in 1..NumAdapters |-> i]

\* reversed(...) of lines 629 and 643
Reversed(s) == [i \in 1..Len(s) |-> s[Len(s) + 1 - i]]

\* start(), lines 624-626: started_adapters when the start() of adapter f
\* raises, all of them when f is 0
started_adapters(f) ==
  IF f = 0 THEN RegisteredAdapters ELSE [i \in 1..(f - 1) |-> RegisteredAdapters[i]]

\* mutant: the rollback stops the started adapters in start order
rollback_adapters_forward(started) == started

\* start(), line 629: the adapters the except branch stops, in order
rollback_adapters(started) == Reversed(started)

\* a stop() that stops the last adapter once for every adapter there is
stop_adapters_last == [i \in 1..NumAdapters |-> NumAdapters]

\* stop(), line 643: the adapters stop() stops, in order
stop_adapters == Reversed(RegisteredAdapters)

(* --- InputRouter.start ------------------------------------------------- *)

\* start(), lines 607-620, the locked part: return if running, else drain
\* the queue, clear the stop signal, set both flags, start a worker thread
BeginStart(c) ==
  /\ c \in callers /\ c_pc[c] = "idle" /\ calls_left > 0
  /\ calls_left' = calls_left - 1
  /\ c_call' = [c_call EXCEPT ![c] = "start"]
  /\ c_exc' = [c_exc EXCEPT ![c] = 0]
  /\ c_errors' = [c_errors EXCEPT ![c] = <<>>]
  /\ IF is_running
       THEN /\ c_pc' = [c_pc EXCEPT ![c] = "finish"]
            /\ c_log' = [c_log EXCEPT ![c] = <<<<"noop", 0>>>>]
            /\ UNCHANGED <<coreVars, w_pc>>
       ELSE LET w == CHOOSE x \in Workers :
                       /\ w_pc[x] = "unborn"
                       /\ \A y \in Workers : w_pc[y] = "unborn" => x <= y
            IN /\ event_queue' = <<>>
               /\ worker_stop_event' = FALSE
               /\ accepting_events' = TRUE
               /\ is_running' = TRUE
               /\ worker_thread' = w
               /\ w_pc' = [w_pc EXCEPT ![w] = "loop"]
               /\ c_pc' = [c_pc EXCEPT ![c] = "start_adapters"]
               /\ c_log' = [c_log EXCEPT ![c] =
                              <<<<"drain", 0>>, <<"running", 0>>, <<"worker_start", w>>>>]
  /\ UNCHANGED <<a_running, callers, c_arg, c_worker, c_result, w_event, w_triggered,
                 w_exc, w_calls, raises_left, match_log, producerVars, engineVars,
                 countdownVars,
                 adapterVars, normVars, runtimeVars>>

\* start(), lines 622-632: adapter.start() in registration order; when the
\* start() of adapter f raises, adapter.stop() on the started ones, whose own
\* exceptions are passed over
StartAdapters(c) ==
  /\ c_pc[c] = "start_adapters"
  /\ \E f \in 0..NumAdapters :
       LET started == started_adapters(f)
           stopped == IF f = 0 THEN <<>> ELSE rollback_adapters(started)
       IN /\ a_running' = [a \in Adapters |->
                             IF a \in Range(stopped) THEN FALSE
                             ELSE IF a \in Range(started) THEN TRUE
                             ELSE a_running[a]]
          /\ c_exc' = [c_exc EXCEPT ![c] = f]
          /\ Log(c, Entries("adapter_start", started)
                    \o (IF f = 0 THEN <<>> ELSE <<<<"adapter_start_raised", f>>>>)
                    \o Entries("adapter_stop", stopped))
          /\ c_pc' = [c_pc EXCEPT ![c] = IF f = 0 THEN "finish" ELSE "shutdown_signal"]
  /\ UNCHANGED <<coreVars, callers, c_call, c_errors, c_arg, c_worker, c_result,
                 calls_left, workerVars, producerVars, engineVars, countdownVars,
                 adapterVars, normVars, runtimeVars>>

(* --- InputRouter.stop -------------------------------------------------- *)

\* stop(), lines 637-640, the locked part: return if not running, else clear
\* the accepting flag
BeginStop(c) ==
  /\ c \in callers /\ c_pc[c] = "idle" /\ calls_left > 0
  /\ calls_left' = calls_left - 1
  /\ c_call' = [c_call EXCEPT ![c] = "stop"]
  /\ c_exc' = [c_exc EXCEPT ![c] = 0]
  /\ c_errors' = [c_errors EXCEPT ![c] = <<>>]
  /\ IF ~is_running
       THEN /\ c_pc' = [c_pc EXCEPT ![c] = "finish"]
            /\ c_log' = [c_log EXCEPT ![c] = <<<<"noop", 0>>>>]
            /\ UNCHANGED accepting_events
       ELSE /\ accepting_events' = FALSE
            /\ c_pc' = [c_pc EXCEPT ![c] = "stop_adapters"]
            /\ c_log' = [c_log EXCEPT ![c] = <<<<"accepting_off", 0>>>>]
  /\ UNCHANGED <<is_running, worker_stop_event, event_queue, worker_thread,
                 a_running, callers, c_arg, c_worker, c_result, workerVars,
                 producerVars, engineVars, countdownVars,
                 adapterVars, normVars, runtimeVars>>

\* stop(), lines 642-647: adapter.stop() in reverse registration order; the
\* exceptions of the adapters in errs are kept and the loop goes on
StopAdapters(c) ==
  /\ c_pc[c] = "stop_adapters"
  /\ \E errs \in SUBSET Adapters :
       /\ c_errors' = [c_errors EXCEPT ![c] = SelectSeq(stop_adapters, LAMBDA a : a \in errs)]
       /\ Log(c, [i \in 1..NumAdapters |->
                    << IF stop_adapters[i] \in errs THEN "adapter_stop_raised"
                       ELSE "adapter_stop",
                       stop_adapters[i] >>])
  /\ a_running' = [a \in Adapters |-> FALSE]
  /\ c_pc' = [c_pc EXCEPT ![c] = "shutdown_signal"]
  /\ UNCHANGED <<coreVars, callers, c_call, c_exc, c_arg, c_worker, c_result, calls_left,
                 workerVars, producerVars, engineVars, countdownVars,
                 adapterVars, normVars, runtimeVars>>

(* --- InputRouter._shutdown_worker -------------------------------------- *)

\* lines 689-692: set the stop signal, put the None marker, take the worker
ShutdownSignal(c) ==
  /\ c_pc[c] = "shutdown_signal"
  /\ worker_stop_event' = TRUE
  /\ event_queue' = Append(event_queue, Sentinel)
  /\ c_worker' = [c_worker EXCEPT ![c] = worker_thread]
  /\ worker_thread' = 0
  /\ Log(c, <<<<"stop_signal", 0>>, <<"sentinel", 0>>>>)
  /\ c_pc' = [c_pc EXCEPT ![c] = "shutdown_join"]
  /\ UNCHANGED <<is_running, accepting_events, a_running, callers, c_call, c_errors,
                 c_exc, c_arg, c_result, calls_left, workerVars, producerVars,
                 engineVars, countdownVars,
                 adapterVars, normVars, runtimeVars>>

\* lines 693-698: worker.join(timeout=1.0) returns when the worker has ended,
\* or at the timeout while the worker is still busy with an event; then the
\* locked part clears both flags
ShutdownJoin(c) ==
  /\ c_pc[c] = "shutdown_join"
  /\ \/ /\ IF c_worker[c] = 0 THEN TRUE ELSE ~IsAlive(c_worker[c])
        /\ Log(c, <<<<"join", 0>>, <<"not_running", 0>>>>)
     \/ /\ c_worker[c] # 0 /\ w_pc[c_worker[c]] \in DispatchPcs
        /\ Log(c, <<<<"join_timeout", 0>>, <<"not_running", 0>>>>)
  /\ is_running' = FALSE
  /\ accepting_events' = FALSE
  /\ c_pc' = [c_pc EXCEPT ![c] = "shutdown_drain"]
  /\ UNCHANGED <<worker_stop_event, event_queue, worker_thread, a_running, callers,
                 c_call, c_errors, c_exc, c_arg, c_worker, c_result, calls_left,
                 workerVars, producerVars, engineVars, countdownVars,
                 adapterVars, normVars, runtimeVars>>

\* line 700 and _drain_queue, lines 702-707
ShutdownDrain(c) ==
  /\ c_pc[c] = "shutdown_drain"
  /\ event_queue' = <<>>
  /\ Log(c, <<<<"drain", 0>>>>)
  /\ c_pc' = [c_pc EXCEPT ![c] = "finish"]
  /\ UNCHANGED <<is_running, accepting_events, worker_stop_event, worker_thread,
                 a_running, callers, c_call, c_errors, c_exc, c_arg, c_worker,
                 c_result, calls_left, workerVars, producerVars, engineVars,
                 countdownVars,
                 adapterVars, normVars, runtimeVars>>

\* mutant: stop() returns without reporting the adapters' failures
CallOutcome_silent(c) ==
  IF c_call[c] = "start" /\ c_exc[c] # 0 THEN "raised_start" ELSE "returned"

\* how a call that has done its work ends: start() re-raises the adapter's
\* exception (line 634), stop() raises one RuntimeError when adapter_errors
\* is not empty (lines 651-654), anything else returns
CallOutcome(c) ==
  IF c_call[c] = "start" /\ c_exc[c] # 0 THEN "raised_start"
  ELSE IF c_call[c] = "stop" /\ c_errors[c] # <<>> THEN "raised_stop"
  ELSE "returned"

\* the call returns or raises to its caller
Finish(c) ==
  /\ c_pc[c] = "finish"
  /\ c_result' = [c_result EXCEPT ![c] = CallOutcome(c)]
  /\ c_pc' = [c_pc EXCEPT ![c] = "idle"]
  /\ c_errors' = [c_errors EXCEPT ![c] = <<>>]
  /\ c_exc' = [c_exc EXCEPT ![c] = 0]
  /\ c_arg' = [c_arg EXCEPT ![c] = <<>>]
  /\ c_worker' = [c_worker EXCEPT ![c] = 0]
  /\ c_log' = [c_log EXCEPT ![c] = <<>>]
  /\ UNCHANGED <<coreVars, a_running, callers, c_call, calls_left, workerVars,
                 producerVars, engineVars, countdownVars,
                 adapterVars, normVars, runtimeVars>>

(* --- InputRouter.set_skill_items --------------------------------------- *)

\* set_skill_items(), line 604: the caller's thread enters the engine
BeginSetSkillItems(c) ==
  /\ c \in callers /\ c_pc[c] = "idle" /\ calls_left > 0
  /\ calls_left' = calls_left - 1
  /\ c_call' = [c_call EXCEPT ![c] = "set_skill_items"]
  /\ c_exc' = [c_exc EXCEPT ![c] = 0]
  /\ c_errors' = [c_errors EXCEPT ![c] = <<>>]
  /\ \E items \in RouterRuleLists : c_arg' = [c_arg EXCEPT ![c] = items]
  /\ c_pc' = [c_pc EXCEPT ![c] = "ssi_assign"]
  /\ c_log' = [c_log EXCEPT ![c] = <<<<"engine_enter", 0>>>>]
  /\ UNCHANGED <<coreVars, a_running, callers, c_worker, c_result, workerVars,
                 producerVars, engineVars, countdownVars,
                 adapterVars, normVars, runtimeVars>>

\* TrackerInputEngine.set_skill_items, line 37: the rule list is replaced
SetSkillItemsAssign(c) ==
  /\ c_pc[c] = "ssi_assign"
  /\ skill_items' = c_arg[c]
  /\ c_pc' = [c_pc EXCEPT ![c] = "finish"]
  /\ Log(c, <<<<"engine_leave", 0>>>>)
  /\ UNCHANGED <<coreVars, a_running, callers, c_call, c_errors, c_exc, c_arg,
                 c_worker, c_result, calls_left, workerVars, producerVars, eng_event,
                 eng_triggered, eng_pre, down, pre_down, eng_fresh, countdownVars,
                 adapterVars, normVars, runtimeVars>>

(* --- InputRouter._run_worker ------------------------------------------- *)

\* mutant: the triggered-skills subscriber is called before the event one
next_dispatch_step_swapped(step) ==
  IF step = "arm" THEN "on_triggered"
  ELSE IF step = "on_triggered" THEN "on_event"
  ELSE "loop"

\* _dispatch_event, lines 681-686: the step after a step that did not raise
next_dispatch_step(step) ==
  IF step = "arm" THEN "on_event"
  ELSE IF step = "on_event" THEN "on_triggered"
  ELSE "loop"

\* the ids of the items at the positions ps
ItemIds(items, ps) == [k \in 1..Len(ps) |-> items[ps[k]].id]

Called(w, callee, arg, outcome) ==
  w_calls' = [w_calls EXCEPT ![w] = Append(@, <<callee, arg, outcome>>)]

\* lines 664-672: the loop head; the worker ends when the stop signal is set
\* and the queue is empty, else it takes the next entry and skips the marker
WorkerPoll(w) ==
  /\ w_pc[w] = "loop"
  /\ IF event_queue = <<>>
       THEN /\ worker_stop_event
            /\ w_pc' = [w_pc EXCEPT ![w] = "dead"]
            /\ UNCHANGED <<event_queue, w_event, w_calls>>
       ELSE /\ event_queue' = Tail(event_queue)
            /\ IF Head(event_queue) = Sentinel
                 THEN UNCHANGED <<w_pc, w_event, w_calls>>
                 ELSE /\ w_event' = [w_event EXCEPT ![w] = Head(event_queue)]
                      /\ w_calls' = [w_calls EXCEPT ![w] = <<>>]
                      /\ w_pc' = [w_pc EXCEPT ![w] = "match"]
  /\ UNCHANGED <<is_running, accepting_events, worker_stop_event, worker_thread,
                 a_running, callerVars, w_triggered, w_exc, raises_left, match_log,
                 producerVars, engineVars, countdownVars,
                 adapterVars, normVars, runtimeVars>>

\* a step of the dispatch raises: the except branch of line 676 is next
Raises(w, step) ==
  /\ raises_left > 0
  /\ raises_left' = raises_left - 1
  /\ w_exc' = [w_exc EXCEPT ![w] = step]
  /\ w_pc' = [w_pc EXCEPT ![w] = "on_error"]

\* process_event, lines 39-59: entry and the first loop, the trigger checks
\* of a press or the releases of a release
WorkerMatch(w) ==
  /\ w_pc[w] = "match"
  /\ match_log' = Append(match_log, w_event[w].eid)
  /\ LET event == w_event[w].ev
         triggered == ItemIds(skill_items, process_event_triggered(skill_items, event))
     IN \/ /\ w_triggered' = [w_triggered EXCEPT ![w] = triggered]
           /\ skill_items' = IF event.pressed THEN skill_items
                             ELSE release_items(skill_items, event)
           /\ w_pc' = [w_pc EXCEPT ![w] = "arm"]
           /\ Called(w, "process_event", triggered, "returned")
           /\ UNCHANGED <<w_exc, raises_left>>
        \/ /\ Raises(w, "process_event")
           /\ Called(w, "process_event", <<>>, "raised")
           /\ UNCHANGED <<w_triggered, skill_items>>
  /\ UNCHANGED <<coreVars, a_running, callerVars, w_event, producerVars, eng_event,
                 eng_triggered, eng_pre, down, pre_down, eng_fresh, countdownVars,
                 adapterVars, normVars, runtimeVars>>

\* process_event, lines 61-67: the second loop of a press and the return
WorkerArm(w) ==
  /\ w_pc[w] = "arm"
  /\ LET event == w_event[w].ev
     IN skill_items' = IF event.pressed THEN press_armed(skill_items, event)
                       ELSE skill_items
  /\ w_pc' = [w_pc EXCEPT ![w] = next_dispatch_step("arm")]
  /\ UNCHANGED <<coreVars, a_running, callerVars, w_event, w_triggered, w_exc,
                 w_calls, raises_left, match_log, producerVars, eng_event, eng_triggered,
                 eng_pre, down, pre_down, eng_fresh, countdownVars,
                 adapterVars, normVars, runtimeVars>>

\* _dispatch_event, lines 682-683: the event subscriber
WorkerOnEvent(w) ==
  /\ w_pc[w] = "on_event"
  /\ \/ /\ w_pc' = [w_pc EXCEPT ![w] = next_dispatch_step("on_event")]
        /\ Called(w, "on_event", <<>>, "returned")
        /\ UNCHANGED <<w_exc, raises_left>>
     \/ /\ Raises(w, "on_event")
        /\ Called(w, "on_event", <<>>, "raised")
  /\ UNCHANGED <<coreVars, a_running, callerVars, w_event, w_triggered, match_log,
                 producerVars, engineVars, countdownVars,
                 adapterVars, normVars, runtimeVars>>

\* _dispatch_event, lines 684-686: the triggered-skills subscriber
WorkerOnTriggered(w) ==
  /\ w_pc[w] = "on_triggered"
  /\ \/ /\ w_pc' = [w_pc EXCEPT ![w] = next_dispatch_step("on_triggered")]
        /\ Called(w, "on_triggered", w_triggered[w], "returned")
        /\ UNCHANGED <<w_exc, raises_left>>
     \/ /\ Raises(w, "on_triggered")
        /\ Called(w, "on_triggered", w_triggered[w], "raised")
  /\ UNCHANGED <<coreVars, a_running, callerVars, w_event, w_triggered, match_log,
                 producerVars, engineVars, countdownVars,
                 adapterVars, normVars, runtimeVars>>

\* lines 676-678: the error callback, given the exception in flight; an
\* exception from the callback itself leaves the loop and ends the thread
WorkerOnError(w) ==
  /\ w_pc[w] = "on_error"
  /\ \/ /\ w_pc' = [w_pc EXCEPT ![w] = "loop"]
        /\ w_exc' = [w_exc EXCEPT ![w] = "none"]
        /\ Called(w, "on_error", <<w_exc[w]>>, "returned")
     \/ /\ w_pc' = [w_pc EXCEPT ![w] = "crashed"]
        /\ w_exc' = [w_exc EXCEPT ![w] = "on_error"]
        /\ Called(w, "on_error", <<w_exc[w]>>, "raised")
  /\ UNCHANGED <<coreVars, a_running, callerVars, w_event, w_triggered, raises_left,
                 match_log, producerVars, engineVars, countdownVars,
                 adapterVars, normVars, runtimeVars>>

(* --- InputRouter.route_input_event ------------------------------------- *)

\* line 657: isinstance(event, InputEvent); the values tried are InputEvents
\* and tagged raw codes
is_InputEvent(x) == DOMAIN x = DOMAIN NoEvent

\* what a caller may hand to call e of route_input_event: the InputEvent its
\* adapter built, or by mistake a raw code
RouteArgs(e) == {RouterEventOf(e), k_buttons0}

\* the flag is read before the type is looked at
route_outcome_flagfirst(arg, accepting) ==
  IF ~accepting THEN "dropped"
  ELSE IF ~is_InputEvent(arg) THEN "raised" ELSE "put"

\* lines 657-660: TypeError for anything but an InputEvent, then a return
\* when the accepting flag reads false, else on to the put
route_outcome(arg, accepting) ==
  IF ~is_InputEvent(arg) THEN "raised"
  ELSE IF ~accepting THEN "dropped" ELSE "put"

\* the start() calls that have begun a session so far: each of them made
\* one worker thread (line 614)
SessionsBegun == Cardinality({w \in Workers : w_pc[w] # "unborn"})

\* lines 657-660: an adapter's thread calls with its argument; the type is
\* checked and the accepting flag read
RouteCheck(e) ==
  /\ events_left > 0
  /\ e = routed + 1
  /\ routed' = e
  /\ events_left' = events_left - 1
  /\ \E arg \in RouteArgs(e) :
       /\ p_arg' = [p_arg EXCEPT ![e] = arg]
       /\ p_pc' = [p_pc EXCEPT ![e] =
                     CASE route_outcome(arg, accepting_events) = "raised" -> "raised"
                       [] route_outcome(arg, accepting_events) = "put" -> "put"
                       [] OTHER -> "idle"]
       /\ p_session' = [p_session EXCEPT ![e] =
                          IF route_outcome(arg, accepting_events) = "put"
                            THEN SessionsBegun ELSE 0]
  /\ UNCHANGED <<coreVars, a_running, callerVars, workerVars, enq_log, late_puts,
                 engineVars, countdownVars,
                 adapterVars, normVars, runtimeVars>>

\* caller c is inside a stop() that has executed line 640 and not returned
StopHasCleared(c) ==
  c_call[c] = "stop" /\ <<"accepting_off", 0>> \in Range(c_log[c])

\* line 661: the event goes on the queue
RoutePut(e) ==
  /\ p_pc[e] = "put"
  /\ event_queue' = Append(event_queue, [eid |-> e, ev |-> p_arg[e]])
  /\ enq_log' = Append(enq_log, e)
  /\ late_puts' = IF \E c \in callers : StopHasCleared(c)
                    THEN late_puts \cup {e} ELSE late_puts
  /\ p_pc' = [p_pc EXCEPT ![e] = "idle"]
  /\ UNCHANGED <<is_running, accepting_events, worker_stop_event, worker_thread,
                 a_running, callerVars, workerVars, p_arg, p_session, routed,
                 events_left, engineVars, countdownVars,
                 adapterVars, normVars, runtimeVars>>

(* --- the router with its threads --------------------------------------- *)

Start == \E c \in CallerIds : BeginStart(c) \/ StartAdapters(c)

Stop == \E c \in CallerIds : BeginStop(c) \/ StopAdapters(c)

ShutdownWorker ==
  \E c \in CallerIds : ShutdownSignal(c) \/ ShutdownJoin(c) \/ ShutdownDrain(c)

Return == \E c \in CallerIds : Finish(c)

SetSkillItems == \E c \in CallerIds : BeginSetSkillItems(c) \/ SetSkillItemsAssign(c)

RunWorker == \E w \in Workers : WorkerPoll(w) \/ WorkerOnError(w)

DispatchEvent ==
  \E w \in Workers : WorkerMatch(w) \/ WorkerArm(w) \/ WorkerOnEvent(w) \/ WorkerOnTriggered(w)

RouteInputEvent == \E e \in EventIds : RouteCheck(e) \/ RoutePut(e)

RouterNext ==
  \/ Start
  \/ Stop
  \/ ShutdownWorker
  \/ Return
  \/ SetSkillItems
  \/ RunWorker
  \/ DispatchEvent
  \/ RouteInputEvent

(* ----------------------------------------------------------------------- *)
(* Device adapters: start(), stop(), the callback path and the polling     *)
(* thread                                                                  *)
(* ----------------------------------------------------------------------- *)
ListenerKinds == {"keyboard", "mouse"}

AdapterKinds == ListenerKinds \cup {"gamepad"}

\* start()/stop() calls and raw inputs of one run, and the joysticks attached
MaxAdapterCalls == 3

MaxAdapterEvents == 1

\* start()/stop() calls and axis readings of a run of the trigger axes
MaxAxisCalls == 3

MaxAxisReadings == 3

MaxJoysticks == 1

\* _GAMEPAD_TRIGGER_AXIS_TO_BUTTON
GAMEPAD_TRIGGER_AXIS_TO_BUTTON == (4 :> 4) @@ (5 :> 5)

\* the thresholds and the readings, in hundredths of the axis range
GAMEPAD_TRIGGER_PRESS_THRESHOLD == 50

GAMEPAD_TRIGGER_RELEASE_THRESHOLD == 25

\* a listener as its factory returns it
NewListener == [start_count |-> 0, stop_count |-> 0, join_count |-> 0]

\* _stop_listener(listener, suppress_exceptions=...): stop() then join(timeout)
\* are both called whatever the first one does; the first pending exception
\* is raised at the end unless exceptions are suppressed
stop_listener(l, suppress_exceptions, stop_raises, join_raises) ==
  [ listener |-> [l EXCEPT !.stop_count = @ + 1, !.join_count = @ + 1],
    raised   |-> ~suppress_exceptions /\ (stop_raises \/ join_raises) ]

\* a start() that leaves the listener it could not start as it is
listener_start_norollback(listeners, factory_raises, start_raises, stop_raises, join_raises) ==
  IF factory_raises
    THEN [is_running |-> FALSE, listener |-> 0, listeners |-> listeners, raised |-> TRUE]
    ELSE LET l == [NewListener EXCEPT !.start_count = 1]
             n == Len(listeners) + 1
         IN IF start_raises
              THEN [is_running |-> FALSE, listener |-> 0,
                    listeners |-> Append(listeners, l), raised |-> TRUE]
              ELSE [is_running |-> TRUE, listener |-> n,
                    listeners |-> Append(listeners, l), raised |-> FALSE]

\* KeyboardInputAdapter.start / MouseInputAdapter.start on an adapter that is
\* not running: the fields after the call and whether it raised
listener_start(listeners, factory_raises, start_raises, stop_raises, join_raises) ==
  IF factory_raises
    THEN [is_running |-> FALSE, listener |-> 0, listeners |-> listeners, raised |-> TRUE]
    ELSE LET l == [NewListener EXCEPT !.start_count = 1]
             n == Len(listeners) + 1
         IN IF start_raises
              THEN [is_running |-> FALSE, listener |-> 0,
                    listeners |-> Append(listeners,
                                    stop_listener(l, TRUE, stop_raises, join_raises).listener),
                    raised |-> TRUE]
              ELSE [is_running |-> TRUE, listener |-> n,
                    listeners |-> Append(listeners, l), raised |-> FALSE]

\* KeyboardInputAdapter.stop / MouseInputAdapter.stop on a running adapter
listener_stop(listener, listeners, stop_raises, join_raises) ==
  IF listener = 0
    THEN [is_running |-> FALSE, listener |-> 0, listeners |-> listeners, raised |-> FALSE]
    ELSE LET r == stop_listener(listeners[listener], FALSE, stop_raises, join_raises)
         IN [is_running |-> FALSE, listener |-> 0,
             listeners |-> [listeners EXCEPT ![listener] = r.listener],
             raised |-> r.raised]

\* the steps of GamepadInputAdapter.start that can raise
GamepadFailures ==
  {"none", "resolve", "pygame_init", "joystick_init", "joystick_open",
   "thread_factory", "thread_start"}

Ok(rt) == [rt |-> rt, raised |-> FALSE]

Raised(rt) == [rt |-> rt, raised |-> TRUE]

Then(s, F(_)) == IF s.raised THEN s ELSE F(s.rt)

\* GamepadInputAdapter._resolve_pygame_module
resolve_pygame_module(rt, fail) ==
  IF rt.pygame_module THEN Ok(rt)
  ELSE IF fail = "resolve" THEN Raised(rt)
  ELSE Ok([rt EXCEPT !.pygame_module = TRUE])

\* _refresh_joysticks: surplus handles are quit, missing ones are opened and
\* kept in _joysticks; an open that raises leaves the earlier ones in the list
refresh_joysticks(rt, fail, count) ==
  IF rt.joysticks >= count
    THEN Ok([rt EXCEPT !.joysticks = count, !.open = @ - (rt.joysticks - count)])
  ELSE IF fail = "joystick_open"
    THEN Raised([rt EXCEPT !.joysticks = count - 1,
                           !.open = @ + (count - 1 - rt.joysticks)])
  ELSE Ok([rt EXCEPT !.joysticks = count, !.open = @ + (count - rt.joysticks)])

\* _initialize_runtime after its first statement (the latch is cleared by the
\* caller): pygame and its joystick module are initialised when they are not
\* yet, and the adapter remembers which of the two it initialised itself
initialize_runtime(rt0, fail, count) ==
  LET init_pygame(rt) ==
        IF rt.pygame_init THEN Ok(rt)
        ELSE IF fail = "pygame_init" THEN Raised(rt)
        ELSE Ok([rt EXCEPT !.pygame_init = TRUE, !.owns_pygame_init = TRUE])
      init_joystick(rt) ==
        IF rt.joystick_init THEN Ok(rt)
        ELSE IF fail = "joystick_init" THEN Raised(rt)
        ELSE Ok([rt EXCEPT !.joystick_init = TRUE, !.owns_joystick_init = TRUE])
      refresh(rt) == refresh_joysticks(rt, fail, count)
  IN Then(Then(Then(resolve_pygame_module(rt0, fail), init_pygame), init_joystick),
          refresh)

\* _cleanup_runtime without its last statement (the latch is cleared by the
\* caller when the module is resolved): every quit() error is swallowed
cleanup_runtime(rt) ==
  IF ~rt.pygame_module THEN rt
  ELSE [rt EXCEPT !.open = @ - rt.joysticks,
                  !.joysticks = 0,
                  !.joystick_init = @ /\ ~rt.owns_joystick_init,
                  !.pygame_init = @ /\ ~rt.owns_pygame_init,
                  !.owns_pygame_init = FALSE,
                  !.owns_joystick_init = FALSE]

\* the event factory of each adapter class
adapter_source(kind) == kind

\* what the callbacks given to an adapter can do when they are called
DeliverOutcomes == {"returns", "ValueError", "Exception"}

\* the callbacks and the factory of one run of the callback path: whether an
\* event callback is set, whether the event factory raises something else than
\* the ValueError of a code that cannot be normalized, what the event callback
\* does, whether an error callback is set, and whether it raises each time it
\* is called; what a run cannot reach is given one value
EmitCases ==
  { c \in [ callback : BOOLEAN, factory_raises : BOOLEAN, deliver : DeliverOutcomes,
            error_callback : BOOLEAN, error_raises : BOOLEAN ] :
      /\ ~c.callback => ~c.factory_raises /\ ~c.error_callback
      /\ c.factory_raises => c.deliver = "returns"
      /\ ~c.error_callback => ~c.error_raises }

\* _handle_adapter_exception: the error callback is called when there is one,
\* and what it raises is not caught
handle_adapter_exception(error_callback, error_raises) ==
  [ delivered  |-> FALSE,
    failed     |-> TRUE,
    reported   |-> error_callback,
    propagated |-> error_callback /\ error_raises ]

\* the callback path left without a report
Dropped(failed) ==
  [delivered |-> FALSE, failed |-> failed, reported |-> FALSE, propagated |-> FALSE]

\* _emit_normalized of the three adapters
emit_normalized(kind, raw, pressed, c) ==
  LET event == InputEvent(raw, adapter_source(kind), 0, pressed)
  IN IF ~c.callback \/ (kind = "gamepad" /\ raw.kind = "none") THEN Dropped(FALSE)
     ELSE IF c.factory_raises
       THEN handle_adapter_exception(c.error_callback, c.error_raises)
     ELSE IF ~event.ok THEN Dropped(FALSE)
     ELSE IF c.deliver = "returns"
       THEN [delivered |-> TRUE, failed |-> FALSE, reported |-> FALSE,
             propagated |-> FALSE]
     ELSE IF c.deliver = "ValueError" THEN Dropped(TRUE)
     ELSE handle_adapter_exception(c.error_callback, c.error_raises)

\* an axis handler that presses whatever the latch says
handle_axis_motion_nolatch(states, axis, value) ==
  IF axis.kind # "int" \/ value.kind # "int"
       \/ axis.val \notin DOMAIN GAMEPAD_TRIGGER_AXIS_TO_BUTTON
    THEN [states |-> states, emitted |-> <<>>]
    ELSE LET virtual_button == GAMEPAD_TRIGGER_AXIS_TO_BUTTON[axis.val]
         IN IF value.val >= GAMEPAD_TRIGGER_PRESS_THRESHOLD
              THEN [states |-> states \cup {virtual_button},
                    emitted |-> << <<virtual_button, TRUE>> >>]
            ELSE IF virtual_button \in states
                    /\ value.val <= GAMEPAD_TRIGGER_RELEASE_THRESHOLD
              THEN [states |-> states \ {virtual_button},
                    emitted |-> << <<virtual_button, FALSE>> >>]
            ELSE [states |-> states, emitted |-> <<>>]

\* _handle_axis_motion: the latch after the reading and the calls of
\* _emit_normalized it makes (one or none); an axis or a value that is no
\* number, and an axis that is no trigger, are ignored
handle_axis_motion(states, axis, value) ==
  IF axis.kind # "int" \/ value.kind # "int"
       \/ axis.val \notin DOMAIN GAMEPAD_TRIGGER_AXIS_TO_BUTTON
    THEN [states |-> states, emitted |-> <<>>]
    ELSE LET virtual_button == GAMEPAD_TRIGGER_AXIS_TO_BUTTON[axis.val]
             is_pressed == virtual_button \in states
         IN IF ~is_pressed /\ value.val >= GAMEPAD_TRIGGER_PRESS_THRESHOLD
              THEN [states |-> states \cup {virtual_button},
                    emitted |-> << <<virtual_button, TRUE>> >>]
            ELSE IF is_pressed /\ value.val <= GAMEPAD_TRIGGER_RELEASE_THRESHOLD
              THEN [states |-> states \ {virtual_button},
                    emitted |-> << <<virtual_button, FALSE>> >>]
            ELSE [states |-> states, emitted |-> <<>>]

\* the raw codes a capture mechanism hands to the callback path
AdapterRaws(kind) ==
  IF kind = "keyboard" THEN {k_f8, k_MOUSE2}
  ELSE IF kind = "mouse" THEN {k_right, k_f8}
  ELSE {IntRaw(4), IntRaw(0 - 1), NoneRaw}

\* the axes and the readings of JOYAXISMOTION events
AxisIndexes == {IntRaw(0), IntRaw(4), IntRaw(5), NoneRaw}

AxisReadings == {IntRaw(25), IntRaw(26), IntRaw(49), IntRaw(50), NoneRaw}

NoAdapterOp ==
  [call |-> "none", was_running |-> FALSE, raised |-> FALSE, listeners |-> 0,
   threads |-> 0, pygame_init |-> FALSE, joystick_init |-> FALSE, open |-> 0]

AdapterOp(call, raised) ==
  [call |-> call, was_running |-> ad_is_running, raised |-> raised,
   listeners |-> Len(ad_listeners), threads |-> Len(ad_threads),
   pygame_init |-> ad_rt.pygame_init, joystick_init |-> ad_rt.joystick_init,
   open |-> ad_rt.open]

NoEmit ==
  [raw |-> NoneRaw, normalizable |-> FALSE,
   case |-> [callback |-> FALSE, factory_raises |-> FALSE, deliver |-> "returns",
             error_callback |-> FALSE, error_raises |-> FALSE],
   out |-> Dropped(FALSE)]

NoAxis == [axis |-> NoneRaw, value |-> NoneRaw, before |-> {}, after |-> {}, emitted |-> <<>>]

AdapterInit(kinds, ncalls, nevents) ==
  /\ ad_kind \in kinds
  /\ ad_is_running = FALSE
  /\ ad_listener = 0
  /\ ad_listeners = <<>>
  /\ ad_thread = 0
  /\ ad_threads = <<>>
  /\ ad_stop_event = FALSE
  /\ ad_rt \in [ pygame_module : IF ncalls = 0 THEN {FALSE} ELSE BOOLEAN,
                 owns_pygame_init : {FALSE}, owns_joystick_init : {FALSE},
                 joysticks : {0}, open : {0},
                 pygame_init : IF ncalls = 0 THEN {FALSE} ELSE BOOLEAN,
                 joystick_init : IF ncalls = 0 THEN {FALSE} ELSE BOOLEAN ]
  /\ ad_kind # "gamepad" =>
       ~ad_rt.pygame_module /\ ~ad_rt.pygame_init /\ ~ad_rt.joystick_init
  /\ ad_axis_button_states = {}
  /\ ad_op = NoAdapterOp
  /\ ad_emit = NoEmit
  /\ ad_axis = NoAxis
  /\ ad_axis_log = <<>>
  /\ ad_calls_left = ncalls
  /\ ad_events_left = nevents

AdapterIdle == AdapterInit({"keyboard"}, 0, 0)

\* a call that finds nothing to do: start() on a running adapter, stop() on
\* one that is not running
AdapterNoOp(call) ==
  /\ ad_op' = AdapterOp(call, FALSE)
  /\ UNCHANGED <<ad_is_running, ad_listener, ad_listeners, ad_thread, ad_threads,
                 ad_stop_event, ad_rt, ad_axis_button_states, ad_axis_log>>

\* KeyboardInputAdapter.start, MouseInputAdapter.start
ListenerStart ==
  /\ ad_kind \in ListenerKinds
  /\ ad_calls_left > 0
  /\ ad_calls_left' = ad_calls_left - 1
  /\ IF ad_is_running THEN AdapterNoOp("start")
     ELSE \E factory_raises, start_raises, stop_raises, join_raises \in BOOLEAN :
            LET r == listener_start(ad_listeners, factory_raises, start_raises,
                                    stop_raises, join_raises)
            IN /\ ad_is_running' = r.is_running
               /\ ad_listener' = r.listener
               /\ ad_listeners' = r.listeners
               /\ ad_op' = AdapterOp("start", r.raised)
               /\ UNCHANGED <<ad_thread, ad_threads, ad_stop_event, ad_rt,
                              ad_axis_button_states, ad_axis_log>>
  /\ UNCHANGED <<ad_kind, ad_emit, ad_axis, ad_events_left>>

\* KeyboardInputAdapter.stop, MouseInputAdapter.stop
ListenerStop ==
  /\ ad_kind \in ListenerKinds
  /\ ad_calls_left > 0
  /\ ad_calls_left' = ad_calls_left - 1
  /\ IF ~ad_is_running THEN AdapterNoOp("stop")
     ELSE \E stop_raises, join_raises \in BOOLEAN :
            LET r == listener_stop(ad_listener, ad_listeners, stop_raises, join_raises)
            IN /\ ad_is_running' = r.is_running
               /\ ad_listener' = r.listener
               /\ ad_listeners' = r.listeners
               /\ ad_op' = AdapterOp("stop", r.raised)
               /\ UNCHANGED <<ad_thread, ad_threads, ad_stop_event, ad_rt,
                              ad_axis_button_states, ad_axis_log>>
  /\ UNCHANGED <<ad_kind, ad_emit, ad_axis, ad_events_left>>

\* GamepadInputAdapter.start
GamepadStart ==
  /\ ad_kind = "gamepad"
  /\ ad_calls_left > 0
  /\ ad_calls_left' = ad_calls_left - 1
  /\ IF ad_is_running THEN AdapterNoOp("start")
     ELSE \E fail \in GamepadFailures, count \in 0..MaxJoysticks :
            LET s == initialize_runtime(ad_rt, fail, count)
                raised == s.raised \/ fail \in {"thread_factory", "thread_start"}
            IN /\ ad_is_running' = ~raised
               /\ ad_stop_event' = raised
               /\ ad_rt' = IF raised THEN cleanup_runtime(s.rt) ELSE s.rt
               /\ ad_axis_button_states' = {}
               /\ ad_thread' = IF raised THEN 0 ELSE Len(ad_threads) + 1
               /\ ad_threads' =
                    IF ~raised THEN Append(ad_threads, "alive")
                    ELSE IF ~s.raised /\ fail = "thread_start"
                      THEN Append(ad_threads, "created")
                    ELSE ad_threads
               /\ ad_axis_log' = <<>>
               /\ ad_op' = AdapterOp("start", raised)
               /\ UNCHANGED <<ad_listener, ad_listeners>>
  /\ UNCHANGED <<ad_kind, ad_emit, ad_axis, ad_events_left>>

\* GamepadInputAdapter.stop: the join of a live polling thread ends with the
\* thread finished or, after its timeout, with the thread still alive
GamepadStop ==
  /\ ad_kind = "gamepad"
  /\ ad_calls_left > 0
  /\ ad_calls_left' = ad_calls_left - 1
  /\ IF ~ad_is_running THEN AdapterNoOp("stop")
     ELSE \E joined \in BOOLEAN :
            /\ ad_is_running' = FALSE
            /\ ad_stop_event' = TRUE
            /\ ad_thread' = 0
            /\ ad_threads' =
                 IF ad_thread # 0 /\ ad_threads[ad_thread] = "alive" /\ joined
                   THEN [ad_threads EXCEPT ![ad_thread] = "dead"]
                   ELSE ad_threads
            /\ ad_rt' = cleanup_runtime(ad_rt)
            /\ ad_axis_button_states' =
                 IF ad_rt.pygame_module THEN {} ELSE ad_axis_button_states
            /\ ad_op' = AdapterOp("stop", FALSE)
            /\ UNCHANGED <<ad_listener, ad_listeners, ad_axis_log>>
  /\ UNCHANGED <<ad_kind, ad_emit, ad_axis, ad_events_left>>

AdapterStart ==
  (ListenerStart \/ GamepadStart) /\ UNCHANGED <<engineVars, countdownVars, routerVars, normVars, runtimeVars>>

AdapterStop ==
  (ListenerStop \/ GamepadStop) /\ UNCHANGED <<engineVars, countdownVars, routerVars, normVars, runtimeVars>>

\* the record of one run of the callback path
Emit(raw, c, out) ==
  [raw |-> raw, normalizable |-> InputEvent(raw, adapter_source(ad_kind), 0, TRUE).ok,
   case |-> c, out |-> out]

\* _on_press, _on_release, _on_click: the listener's thread hands a raw code
\* to the callback path
ListenerCallback ==
  /\ ad_kind \in ListenerKinds
  /\ ad_listeners # <<>>
  /\ ad_events_left > 0
  /\ ad_events_left' = ad_events_left - 1
  /\ \E raw \in AdapterRaws(ad_kind), pressed \in BOOLEAN, c \in EmitCases :
       ad_emit' = Emit(raw, c, emit_normalized(ad_kind, raw, pressed, c))
  /\ UNCHANGED <<ad_kind, ad_is_running, ad_listener, ad_listeners, ad_thread,
                 ad_threads, ad_stop_event, ad_rt, ad_axis_button_states, ad_op,
                 ad_axis, ad_axis_log, ad_calls_left>>

\* _run_loop around one event of _poll_once: what leaves _emit_normalized is
\* handed to the error callback once more, and what that call raises ends the
\* thread
RunLoopAfter(t, out, c) ==
  ad_threads' = IF out.propagated /\ c.error_raises
                  THEN [ad_threads EXCEPT ![t] = "crashed"]
                  ELSE ad_threads

\* _poll_once for a JOYBUTTONDOWN or JOYBUTTONUP event
GamepadPollButton ==
  /\ ad_kind = "gamepad"
  /\ ad_events_left > 0
  /\ ad_events_left' = ad_events_left - 1
  /\ \E t \in 1..Len(ad_threads) :
       /\ ad_threads[t] = "alive"
       /\ \E raw \in AdapterRaws(ad_kind), pressed \in BOOLEAN, c \in EmitCases :
            LET out == emit_normalized(ad_kind, raw, pressed, c)
            IN /\ ad_emit' = Emit(raw, c, out)
               /\ RunLoopAfter(t, out, c)
  /\ UNCHANGED <<ad_kind, ad_is_running, ad_listener, ad_listeners, ad_thread,
                 ad_stop_event, ad_rt, ad_axis_button_states, ad_op, ad_axis,
                 ad_axis_log, ad_calls_left>>

\* _poll_once for a JOYAXISMOTION event, with callbacks that behave as one of
\* the given cases
GamepadPollAxis(cases) ==
  /\ ad_kind = "gamepad"
  /\ ad_events_left > 0
  /\ ad_events_left' = ad_events_left - 1
  /\ \E t \in 1..Len(ad_threads) :
       /\ ad_threads[t] = "alive"
       /\ \E axis \in AxisIndexes, value \in AxisReadings :
            LET r == handle_axis_motion(ad_axis_button_states, axis, value)
            IN /\ ad_axis_button_states' = r.states
               /\ ad_axis' = [axis |-> axis, value |-> value,
                              before |-> ad_axis_button_states, after |-> r.states,
                              emitted |-> r.emitted]
               /\ ad_axis_log' = IF ad_is_running THEN ad_axis_log \o r.emitted
                                                   ELSE ad_axis_log
               /\ IF r.emitted = <<>>
                    THEN UNCHANGED <<ad_emit, ad_threads>>
                    ELSE \E c \in cases :
                           LET out == emit_normalized(ad_kind, IntRaw(r.emitted[1][1]),
                                                      r.emitted[1][2], c)
                           IN /\ ad_emit' = Emit(IntRaw(r.emitted[1][1]), c, out)
                              /\ RunLoopAfter(t, out, c)
  /\ UNCHANGED <<ad_kind, ad_is_running, ad_listener, ad_listeners, ad_thread,
                 ad_stop_event, ad_rt, ad_op, ad_calls_left>>

\* _run_loop: a polling thread that finds the stop event set leaves its loop
GamepadThreadExit ==
  /\ ad_kind = "gamepad"
  /\ ad_stop_event
  /\ \E t \in 1..Len(ad_threads) :
       /\ ad_threads[t] = "alive"
       /\ ad_threads' = [ad_threads EXCEPT ![t] = "dead"]
  /\ UNCHANGED <<ad_kind, ad_is_running, ad_listener, ad_listeners, ad_thread,
                 ad_stop_event, ad_rt, ad_axis_button_states, ad_op, ad_emit, ad_axis,
                 ad_axis_log, ad_calls_left, ad_events_left>>

AdapterCallback ==
  /\ ListenerCallback \/ GamepadPollButton
  /\ UNCHANGED <<engineVars, countdownVars, routerVars, normVars, runtimeVars>>

\* the callbacks the router gives its adapters: route_input_event as the event
\* callback, which returns for every InputEvent, and an error callback
RouterWiredCases ==
  { c \in EmitCases : c.callback /\ ~c.factory_raises /\ c.deliver = "returns"
                      /\ c.error_callback /\ ~c.error_raises }

AdapterAxisMotion ==
  /\ GamepadPollAxis(RouterWiredCases)
  /\ UNCHANGED <<engineVars, countdownVars, routerVars, normVars, runtimeVars>>

RunLoop == GamepadThreadExit /\ UNCHANGED <<engineVars, countdownVars, routerVars, normVars, runtimeVars>>

AdapterNext == AdapterStart \/ AdapterStop \/ AdapterCallback \/ RunLoop

AdapterAxisNext == AdapterStart \/ AdapterStop \/ AdapterAxisMotion \/ RunLoop

(* ----------------------------------------------------------------------- *)
(* Code normalization (input_events.py): normalize_keyboard_code and       *)
(* normalize_gamepad_code on the raw codes they support                    *)
(* ----------------------------------------------------------------------- *)

\* the largest F key of a keyboard
MaxFunctionKey == 12

\* the gamepad button indexes tried run from -MaxNegIndex to MaxButtonIndex
MaxButtonIndex == 60

MaxNegIndex == 2

\* the raw keyboard codes the normalizer supports: letters, digits, F keys,
\* NumPad keys, the punctuation keys and every alias, as strings, and the
\* virtual-key numbers of the letters and digits
KeyboardRaws ==
  {StrRaw(<<Uppers[i]>>) : i \in 1..26} \cup {StrRaw(<<Lowers[i]>>) : i \in 1..26}
    \cup {StrRaw(<<Digits[i]>>) : i \in 1..10}
    \cup {StrRaw(<<"F">> \o DigitsOf(n)) : n \in 1..MaxFunctionKey}
    \cup {StrRaw(<<"f">> \o DigitsOf(n)) : n \in 1..MaxFunctionKey}
    \cup {StrRaw(s_NumPad \o DigitsOf(n)) : n \in 0..9}
    \cup {StrRaw(s_num \o DigitsOf(n)) : n \in 0..9}
    \cup {StrRaw(<<"D">> \o DigitsOf(n)) : n \in 0..9}
    \cup {StrRaw(p[1]) : p \in KEYBOARD_PUNCTUATION_ALIASES}
    \cup {StrRaw(p[1]) : p \in KEYBOARD_ALIASES}
    \cup {IntRaw(n) : n \in 48..57} \cup {IntRaw(n) : n \in 65..90}

\* the integer button indexes handed to the gamepad normalizer
GamepadRaws == {IntRaw(n) : n \in (0 - MaxNegIndex)..MaxButtonIndex}

\* a canonical code handed back to a normalizer as a raw code
AsRaw(code) == IF IsNone(code) THEN NoneRaw ELSE StrRaw(code)

NormInit(raws) ==
  /\ nz_family \in {"keyboard", "gamepad"}
  /\ nz_raw \in raws[nz_family]
  /\ nz_code = None
  /\ nz_again = None
  /\ nz_step = "raw"

\* no code is being normalized
NormIdle ==
  /\ nz_family = "keyboard"
  /\ nz_raw = NoneRaw
  /\ nz_code = None
  /\ nz_again = None
  /\ nz_step = "raw"

\* normalize_keyboard_code(raw)
NormalizeKeyboard ==
  /\ nz_family = "keyboard" /\ nz_step = "raw"
  /\ nz_code' = normalize_keyboard_code(nz_raw)
  /\ nz_step' = "normalized"
  /\ UNCHANGED <<nz_family, nz_raw, nz_again>>
  /\ UNCHANGED <<engineVars, countdownVars, routerVars, adapterVars, runtimeVars>>

\* normalize_gamepad_code(raw)
NormalizeGamepad ==
  /\ nz_family = "gamepad" /\ nz_step = "raw"
  /\ nz_code' = normalize_gamepad_code(nz_raw)
  /\ nz_step' = "normalized"
  /\ UNCHANGED <<nz_family, nz_raw, nz_again>>
  /\ UNCHANGED <<engineVars, countdownVars, routerVars, adapterVars, runtimeVars>>

\* the same normalizer applied to the canonical code it returned
Renormalize ==
  /\ nz_step = "normalized"
  /\ nz_again' = IF nz_family = "keyboard"
                   THEN normalize_keyboard_code(AsRaw(nz_code))
                   ELSE normalize_gamepad_code(AsRaw(nz_code))
  /\ nz_step' = "renormalized"
  /\ UNCHANGED <<nz_family, nz_raw, nz_code>>
  /\ UNCHANGED <<engineVars, countdownVars, routerVars, adapterVars, runtimeVars>>

NormNext == NormalizeKeyboard \/ NormalizeGamepad \/ Renormalize

(* ----------------------------------------------------------------------- *)
(* TrackerRuntimeController (tracker_runtime.py)                           *)
(* The SkillItem objects are shared by reference between the caller, the   *)
(* controller and the router, so lists hold ids and rt_held holds the one  *)
(* _select_key_held of each object. Every list element is a SkillItem.     *)
(* ----------------------------------------------------------------------- *)

MaxRuntimeCalls == 3

MaxTriggers == 2

MaxRuntimeNow == 1

\* time_length of the SkillItem objects 1 and 2, in ticks
RuntimeTimeLength == <<2, -1>>

RuntimeItemIds == 1..Len(RuntimeTimeLength)

\* the lists handed to start() and set_skill_items()
RuntimeItemLists == {<<1>>, <<1, 2>>}

\* the lists a trigger notification can carry: the items of a list, in order
TriggeredLists == {<<1>>, <<2>>, <<1, 2>>}

\* the argument of start(): a list, or None
StartArgs ==
  {[is_none |-> FALSE, items |-> l] : l \in RuntimeItemLists}
    \cup {[is_none |-> TRUE, items |-> <<>>]}

\* _reset_skill_sequence_state: reset_keys() on every item of the list
reset_skill_sequence_state(held, items) ==
  [id \in RuntimeItemIds |-> IF id \in Range(items) THEN FALSE ELSE held[id]]

\* InputRouter.set_skill_items as the controller calls it
router_set_skill_items(router, items) ==
  [router EXCEPT !.skill_items = items]

\* TrackerRuntimeController.set_skill_items: the router after the call
set_skill_items_router(router, items) ==
  IF router.is_running THEN router_set_skill_items(router, items) ELSE router

\* mutant: a failed router start leaves the session's bindings in place
runtime_start_norollback(items, held, router, service, services, start_raises) ==
  LET held1 == reset_skill_sequence_state(held, items)
      router1 == router_set_skill_items(router, items)
  IN
  IF router.is_running /\ service # 0
    THEN [held |-> held, router |-> router, service |-> service,
          services |-> services, raised |-> FALSE, noop |-> TRUE]
  ELSE [held |-> held1,
        router |-> [router1 EXCEPT !.is_running = ~start_raises],
        service |-> Len(services) + 1,
        services |-> Append(services, <<>>),
        raised |-> start_raises, noop |-> FALSE]

\* TrackerRuntimeController.start after its set_skill_items: the fields
\* after the call and whether it raised; start_raises is whether the
\* router's start() raises (it leaves the router not running when it does)
runtime_start(items, held, router, service, services, start_raises) ==
  LET held1 == reset_skill_sequence_state(held, items)
      router1 == router_set_skill_items(router, items)
  IN
  IF router.is_running /\ service # 0
    THEN [held |-> held, router |-> router, service |-> service,
          services |-> services, raised |-> FALSE, noop |-> TRUE]
  ELSE IF start_raises
    THEN [held |-> reset_skill_sequence_state(held1, items),
          router |-> [router_set_skill_items(router1, <<>>) EXCEPT !.is_running = FALSE],
          service |-> 0,
          services |-> Append(services, <<>>),
          raised |-> TRUE, noop |-> FALSE]
  ELSE [held |-> held1,
        router |-> [router1 EXCEPT !.is_running = TRUE],
        service |-> Len(services) + 1,
        services |-> Append(services, <<>>),
        raised |-> FALSE, noop |-> FALSE]

\* mutant: the cleanup is skipped when the router's stop() raises
runtime_stop_nofinally(items, held, router, service, stop_raises) ==
  IF router.is_running /\ stop_raises
    THEN [held |-> held, router |-> [router EXCEPT !.is_running = FALSE],
          service |-> service, raised |-> TRUE]
  ELSE [held |-> reset_skill_sequence_state(held, items),
        router |-> [router EXCEPT !.is_running = FALSE, !.skill_items = <<>>],
        service |-> 0, raised |-> FALSE]

\* TrackerRuntimeController.stop: the fields after the call and whether it
\* raised; stop_raises is whether the router's stop() raises (the router is
\* not running after its stop() either way)
runtime_stop(items, held, router, service, stop_raises) ==
  LET router1 == IF router.is_running
                   THEN [router EXCEPT !.is_running = FALSE] ELSE router
      pending_error == router.is_running /\ stop_raises
  IN [held |-> reset_skill_sequence_state(held, items),
      router |-> router_set_skill_items(router1, <<>>),
      service |-> 0,
      raised |-> pending_error]

\* _on_router_triggered: the payload, one (id, max(0.0, time_length)) per item
trigger_payload(triggered) ==
  [i \in 1..Len(triggered) |-> <<triggered[i], Max(0, RuntimeTimeLength[triggered[i]])>>]

RECURSIVE refresh_rows(_, _, _)
\* the loop of _handle_triggered_skills: refresh(skill_id, max(0.0, duration))
\* for each row in turn, each with its own reading of the clock
refresh_rows(d, rows, nows) ==
  IF rows = <<>> THEN d
  ELSE refresh_rows(refresh_states(d, Head(rows)[1], Max(0, Head(rows)[2]), Head(nows)),
                    Tail(rows), Tail(nows))

\* _handle_triggered_skills: the services after the slot has run
handle_triggered_skills(service, services, rows, nows) ==
  IF service = 0 THEN services
  ELSE [services EXCEPT ![service] = refresh_rows(services[service], rows, nows)]

\* the readings of a monotonic clock from `from` on, one per row
ClockReadings(from, n) ==
  {nows \in [1..n -> from..MaxRuntimeNow] : \A i \in 1..(n - 1) : nows[i] <= nows[i + 1]}

\* the tracked items whose select key is held
Armed(items, held) == {id \in Range(items) : held[id]}

\* armed: the tracked items that were held when the call began
NoRuntimeOp == [call |-> "none", raised |-> FALSE, noop |-> FALSE, armed |-> {}]

\* a payload: its rows, the service that was current when it was emitted
\* and, once the slot has run, the service it found, the clock readings of
\* its refreshes, the skill ids of its rows that had a timer already and
\* the number of payloads handled so far
NoPayload ==
  [rows |-> <<>>, emitted_in |-> 0, service |-> 0, nows |-> <<>>, had |-> {}, seq |-> 0]

\* TrackerRuntimeController.__init__
RuntimeInit(ncalls, ntriggers) ==
  /\ rt_skill_items = <<>>
  /\ rt_held = [id \in RuntimeItemIds |-> FALSE]
  /\ rt_router = [is_running |-> FALSE, skill_items |-> <<>>]
  /\ rt_countdown_service = 0
  /\ rt_services = <<>>
  /\ rt_pending = <<>>
  /\ rt_handled = NoPayload
  /\ rt_op = NoRuntimeOp
  /\ rt_clock = 0
  /\ rt_calls_left = ncalls
  /\ rt_triggers_left = ntriggers

\* no controller is in use
RuntimeIdle == RuntimeInit(0, 0)

\* set_skill_items(skill_items)
RuntimeSetSkillItems ==
  /\ rt_calls_left > 0
  /\ \E items \in RuntimeItemLists :
       /\ rt_skill_items' = items
       /\ rt_router' = set_skill_items_router(rt_router, items)
  /\ rt_op' = [call |-> "set_skill_items", raised |-> FALSE, noop |-> FALSE,
               armed |-> Armed(rt_skill_items, rt_held)]
  /\ rt_calls_left' = rt_calls_left - 1
  /\ UNCHANGED <<rt_held, rt_countdown_service, rt_services, rt_pending, rt_handled,
                 rt_clock, rt_triggers_left>>
  /\ UNCHANGED <<engineVars, countdownVars, routerVars, adapterVars, normVars>>

\* start(skill_items), skill_items a list or None
RuntimeStart ==
  /\ rt_calls_left > 0
  /\ \E arg \in StartArgs, start_raises \in BOOLEAN :
       LET items == IF arg.is_none THEN rt_skill_items ELSE arg.items
           router0 == IF arg.is_none THEN rt_router
                      ELSE set_skill_items_router(rt_router, arg.items)
           out == runtime_start(items, rt_held, router0, rt_countdown_service,
                                rt_services, start_raises)
       IN /\ (out.noop => ~start_raises)
          /\ rt_skill_items' = items
          /\ rt_held' = out.held
          /\ rt_router' = out.router
          /\ rt_countdown_service' = out.service
          /\ rt_services' = out.services
          /\ rt_op' = [call |-> "start", raised |-> out.raised, noop |-> out.noop,
                       armed |-> Armed(items, rt_held)]
  /\ rt_calls_left' = rt_calls_left - 1
  /\ UNCHANGED <<rt_pending, rt_handled, rt_clock, rt_triggers_left>>
  /\ UNCHANGED <<engineVars, countdownVars, routerVars, adapterVars, normVars>>

\* stop()
RuntimeStop ==
  /\ rt_calls_left > 0
  /\ \E stop_raises \in BOOLEAN :
       LET out == runtime_stop(rt_skill_items, rt_held, rt_router,
                               rt_countdown_service, stop_raises)
       IN /\ (~rt_router.is_running => ~stop_raises)
          /\ rt_held' = out.held
          /\ rt_router' = out.router
          /\ rt_countdown_service' = out.service
          /\ rt_op' = [call |-> "stop", raised |-> out.raised,
                       noop |-> ~rt_router.is_running,
                       armed |-> Armed(rt_skill_items, rt_held)]
  /\ rt_calls_left' = rt_calls_left - 1
  /\ UNCHANGED <<rt_skill_items, rt_services, rt_pending, rt_handled, rt_clock,
                 rt_triggers_left>>
  /\ UNCHANGED <<engineVars, countdownVars, routerVars, adapterVars, normVars>>

\* the running router's engine handles a press or a release of the select
\* key of an item it was given (SkillItem.select_key_pressed / _released)
RuntimeSelectKey ==
  /\ rt_router.is_running
  /\ \E id \in Range(rt_router.skill_items), pressed \in BOOLEAN :
       /\ rt_held[id] # pressed
       /\ rt_held' = [rt_held EXCEPT ![id] = pressed]
  /\ UNCHANGED <<rt_skill_items, rt_router, rt_countdown_service, rt_services,
                 rt_pending, rt_handled, rt_op, rt_clock, rt_calls_left,
                 rt_triggers_left>>
  /\ UNCHANGED <<engineVars, countdownVars, routerVars, adapterVars, normVars>>

\* the slot is called with a payload
RuntimeHandle(payload) ==
  \E nows \in ClockReadings(rt_clock, Len(payload.rows)) :
    /\ rt_services' = handle_triggered_skills(rt_countdown_service, rt_services,
                                              payload.rows, nows)
    /\ rt_handled' = [payload EXCEPT !.service = rt_countdown_service,
                                     !.nows = IF rt_countdown_service = 0 THEN <<>> ELSE nows,
                                     !.had = IF rt_countdown_service = 0 THEN {}
                                             ELSE {payload.rows[i][1] : i \in 1..Len(payload.rows)}
                                                    \cap {st.skill_id : st \in Range(rt_services[rt_countdown_service])},
                                     !.seq = rt_handled.seq + 1]
    /\ rt_clock' = IF rt_countdown_service = 0 THEN rt_clock ELSE nows[Len(nows)]

\* _on_router_triggered called on the controller's own thread (a router
\* that reports from the caller's thread, at any time): the signal calls the
\* slot at once
RuntimeTriggerDirect ==
  /\ rt_triggers_left > 0
  /\ \E triggered \in TriggeredLists :
       /\ Range(triggered) \subseteq Range(rt_skill_items)
       /\ RuntimeHandle([NoPayload EXCEPT !.rows = trigger_payload(triggered),
                                          !.emitted_in = rt_countdown_service])
  /\ rt_triggers_left' = rt_triggers_left - 1
  /\ UNCHANGED <<rt_skill_items, rt_held, rt_router, rt_countdown_service, rt_pending,
                 rt_op, rt_calls_left>>
  /\ UNCHANGED <<engineVars, countdownVars, routerVars, adapterVars, normVars>>

\* _on_router_triggered called on the worker thread of the running router:
\* the signal queues the payload for the controller's thread
RuntimeTriggerQueued ==
  /\ rt_triggers_left > 0
  /\ rt_router.is_running
  /\ \E triggered \in TriggeredLists :
       /\ Range(triggered) \subseteq Range(rt_skill_items)
       /\ rt_pending' = Append(rt_pending,
                               [NoPayload EXCEPT !.rows = trigger_payload(triggered),
                                                 !.emitted_in = rt_countdown_service])
  /\ rt_triggers_left' = rt_triggers_left - 1
  /\ UNCHANGED <<rt_skill_items, rt_held, rt_router, rt_countdown_service, rt_services,
                 rt_handled, rt_op, rt_clock, rt_calls_left>>
  /\ UNCHANGED <<engineVars, countdownVars, routerVars, adapterVars, normVars>>

\* the controller's event loop delivers the oldest queued payload to
\* _handle_triggered_skills
RuntimeHandleTriggeredSkills ==
  /\ rt_pending # <<>>
  /\ RuntimeHandle(Head(rt_pending))
  /\ rt_pending' = Tail(rt_pending)
  /\ UNCHANGED <<rt_skill_items, rt_held, rt_router, rt_countdown_service, rt_op,
                 rt_calls_left, rt_triggers_left>>
  /\ UNCHANGED <<engineVars, countdownVars, routerVars, adapterVars, normVars>>

RuntimeNext ==
  \/ RuntimeSetSkillItems
  \/ RuntimeStart
  \/ RuntimeStop
  \/ RuntimeSelectKey
  \/ RuntimeTriggerDirect
  \/ RuntimeTriggerQueued
  \/ RuntimeHandleTriggeredSkills

(* ----------------------------------------------------------------------- *)
(* Specifications                                                          *)
(* ----------------------------------------------------------------------- *)

\* the tracker engine driven by press and release events
EngineSpecInit == EngineInit /\ CountdownInit /\ RouterIdle /\ AdapterIdle /\ NormIdle /\ RuntimeIdle

EngineSpec == EngineSpecInit /\ [][EngineNext]_vars

\* the tracker engine with rules enabled and disabled between events
EngineEditSpecInit == EngineEditInit /\ CountdownInit /\ RouterIdle /\ AdapterIdle /\ NormIdle /\ RuntimeIdle

EngineEditSpec == EngineEditSpecInit /\ [][EngineEditNext]_vars

\* the tracker engine over one rule whose key is given in many forms
EngineMatchSpecInit == EngineMatchInit /\ CountdownInit /\ RouterIdle /\ AdapterIdle /\ NormIdle /\ RuntimeIdle

EngineMatchSpec == EngineMatchSpecInit /\ [][EngineNext]_vars

\* the countdown service driven by its callers
CountdownSpecInit == skill_items = <<>> /\ EngineIdle /\ CountdownInit /\ RouterIdle /\ AdapterIdle /\ NormIdle /\ RuntimeIdle

CountdownSpec == CountdownSpecInit /\ [][CountdownNext]_vars

\* the countdown service with its subscriber list changing
CountdownSubSpec == CountdownSpecInit /\ [][CountdownSubNext]_vars

\* the router driven by one controlling thread, its adapters' threads and
\* its worker threads
RouterSpecInit ==
  /\ skill_items = RouterRules
  /\ EngineIdle
  /\ CountdownInit
  /\ RouterInit({1}, MaxCalls, MaxEvents, MaxRaises)
  /\ AdapterIdle /\ NormIdle /\ RuntimeIdle

RouterSpec == RouterSpecInit /\ [][RouterNext]_vars

\* the same router in a run long enough for a stop(), a second start() and
\* an event for each of the two sessions
RouterRestartSpecInit ==
  /\ skill_items = RouterRules
  /\ EngineIdle
  /\ CountdownInit
  /\ RouterInit({1}, MaxCalls + 1, MaxEvents + 1, MaxRaises)
  /\ AdapterIdle /\ NormIdle /\ RuntimeIdle

RouterRestartSpec == RouterRestartSpecInit /\ [][RouterNext]_vars

\* one session of the router: a start() and the events that follow it
RouterDispatchNext ==
  \/ Start
  \/ ShutdownWorker
  \/ Return
  \/ RunWorker
  \/ DispatchEvent
  \/ RouteInputEvent

RouterDispatchSpecInit ==
  /\ skill_items = RouterRules
  /\ EngineIdle
  /\ CountdownInit
  /\ RouterInit({1}, 1, MaxEvents + 1, MaxRaises)
  /\ AdapterIdle /\ NormIdle /\ RuntimeIdle

RouterDispatchSpec == RouterDispatchSpecInit /\ [][RouterDispatchNext]_vars

\* the router with its threads scheduled fairly: a call of start(), stop() or
\* set_skill_items() that has begun goes on to its end, a worker thread that
\* can take a step takes one, the callbacks the worker calls return or raise,
\* and a put that passed the flag check is made; whether and when the
\* controlling thread makes a call, and whether an adapter produces an event,
\* is left open
RouterFairness ==
  /\ \A c \in CallerIds :
        /\ WF_vars(StartAdapters(c))
        /\ WF_vars(StopAdapters(c))
        /\ WF_vars(ShutdownSignal(c) \/ ShutdownJoin(c) \/ ShutdownDrain(c))
        /\ WF_vars(SetSkillItemsAssign(c))
        /\ WF_vars(Finish(c))
  /\ \A w \in Workers :
        /\ WF_vars(WorkerPoll(w) \/ WorkerOnError(w))
        /\ WF_vars(WorkerMatch(w) \/ WorkerArm(w) \/ WorkerOnEvent(w)
                     \/ WorkerOnTriggered(w))
  /\ \A e \in EventIds : WF_vars(RoutePut(e))

\* a run long enough for a stop() and a second start(), with one event
RouterLiveSpecInit ==
  /\ skill_items = RouterRules
  /\ EngineIdle
  /\ CountdownInit
  /\ RouterInit({1}, MaxCalls + 1, MaxEvents, MaxRaises)
  /\ AdapterIdle /\ NormIdle /\ RuntimeIdle

RouterLiveSpec == RouterLiveSpecInit /\ [][RouterNext]_vars /\ RouterFairness

\* one device adapter driven by its controlling thread and its capture threads
AdapterSpecInit ==
  /\ skill_items = <<>>
  /\ EngineIdle
  /\ CountdownInit
  /\ RouterIdle
  /\ AdapterInit(AdapterKinds, MaxAdapterCalls, MaxAdapterEvents)
  /\ NormIdle /\ RuntimeIdle

AdapterSpec == AdapterSpecInit /\ [][AdapterNext]_vars

\* the gamepad adapter, made with a pygame module that is not yet initialised,
\* reading its trigger axes
AdapterAxisSpecInit ==
  /\ skill_items = <<>>
  /\ EngineIdle
  /\ CountdownInit
  /\ RouterIdle
  /\ AdapterInit({"gamepad"}, MaxAxisCalls, MaxAxisReadings)
  /\ NormIdle /\ RuntimeIdle
  /\ ad_rt.pygame_module /\ ~ad_rt.pygame_init /\ ~ad_rt.joystick_init

AdapterAxisSpec == AdapterAxisSpecInit /\ [][AdapterAxisNext]_vars

\* the normalizers applied to each supported raw code and to their own results
NormSpecInit ==
  /\ skill_items = <<>>
  /\ EngineIdle
  /\ CountdownInit
  /\ RouterIdle
  /\ AdapterIdle
  /\ RuntimeIdle
  /\ NormInit([f \in {"keyboard", "gamepad"} |->
                 IF f = "keyboard" THEN KeyboardRaws ELSE GamepadRaws])

NormSpec == NormSpecInit /\ [][NormNext]_vars

\* the runtime controller driven by its owner, its router and its event loop
RuntimeSpecInit ==
  /\ skill_items = <<>>
  /\ EngineIdle
  /\ CountdownInit
  /\ RouterIdle
  /\ AdapterIdle
  /\ NormIdle
  /\ RuntimeInit(MaxRuntimeCalls, MaxTriggers)

RuntimeSpec == RuntimeSpecInit /\ [][RuntimeNext]_vars

\* the router called from every thread of CallerIds at once, with no input
\* arriving: start() and stop() interleave at the points where they release
\* the state lock
RouterConcurrentNext ==
  \/ Start
  \/ Stop
  \/ ShutdownWorker
  \/ Return
  \/ \E w \in Workers : WorkerPoll(w)

RouterConcurrentSpecInit ==
  /\ skill_items = RouterRules
  /\ EngineIdle
  /\ CountdownInit
  /\ RouterInit(CallerIds, MaxCalls, 0, 0)
  /\ AdapterIdle /\ NormIdle /\ RuntimeIdle

RouterConcurrentSpec == RouterConcurrentSpecInit /\ [][RouterConcurrentNext]_vars

(* ----------------------------------------------------------------------- *)
(* Countdown service properties                                            *)
(* ----------------------------------------------------------------------- *)

\* no two stored timers share a skill_id
OneTimerPerSkill(d) ==
  \A i, j \in 1..Len(d) : d[i].skill_id = d[j].skill_id => i = j

\* C3 as stated: at most one timer per skill_id, and every refresh of a
\* skill_id that has a timer leaves active_count unchanged.
C3_RefreshKeepsCount ==
  [][ /\ OneTimerPerSkill(cd_states')
      /\ (cd_op'.name = "refresh" /\ DictHas(cd_states, cd_op'.skill_id))
           => active_count(cd_states') = active_count(cd_states) ]_vars

\* C3 amended: at most one timer per skill_id at all times; a refresh with a
\* positive duration of a skill_id that has a timer leaves active_count
\* unchanged, and a refresh with duration zero removes that one timer.
C3_OneTimerPerSkill ==
  [][ /\ OneTimerPerSkill(cd_states')
      /\ (cd_op'.name = "refresh" /\ DictHas(cd_states, cd_op'.skill_id))
           => IF cd_op'.duration_seconds = 0
                THEN /\ active_count(cd_states') = active_count(cd_states) - 1
                     /\ ~DictHas(cd_states', cd_op'.skill_id)
                ELSE /\ active_count(cd_states') = active_count(cd_states)
                     /\ DictHas(cd_states', cd_op'.skill_id) ]_vars

\* a timer was refreshed a second time and is still the only one for its id
C3_Witness ==
  /\ cd_op.name = "refresh" /\ cd_op.existed /\ cd_op.duration_seconds > 0
  /\ DictHas(cd_states, cd_op.skill_id)
  /\ DictGet(cd_states, cd_op.skill_id).started_at = cd_op.now
  /\ active_count(cd_states) >= 2

(* ----------------------------------------------------------------------- *)
(* Properties of the router                                                *)
(* ----------------------------------------------------------------------- *)

\* the step in which caller c's call of the method returns or raises
Returning(c, method) == c_pc[c] = "finish" /\ c_pc'[c] = "idle" /\ c_call[c] = method

\* the steps of _shutdown_worker, lines 689-700, with the join ending as j
ShutdownSteps(j) ==
  << <<"stop_signal", 0>>, <<"sentinel", 0>>, <<j, 0>>, <<"not_running", 0>>,
     <<"drain", 0>> >>

\* the steps of a stop() on a running router in which the adapters in errs
\* raise: flag off, adapters in reverse registration order, worker shutdown
StopSteps(errs, j) ==
  << <<"accepting_off", 0>> >>
  \o [i \in 1..NumAdapters |->
        << IF (NumAdapters + 1 - i) \in errs THEN "adapter_stop_raised"
           ELSE "adapter_stop",
           NumAdapters + 1 - i >>]
  \o ShutdownSteps(j)

\* the steps of a start() in which the start() of adapter f raises: adapters
\* 1..f-1 started, then stopped from f-1 down to 1, then worker shutdown
FailedStartSteps(f, w, j) ==
  << <<"drain", 0>>, <<"running", 0>>, <<"worker_start", w>> >>
  \o [i \in 1..(f - 1) |-> <<"adapter_start", i>>]
  \o << <<"adapter_start_raised", f>> >>
  \o [i \in 1..(f - 1) |-> <<"adapter_stop", f - i>>]
  \o ShutdownSteps(j)

JoinOutcomes == {"join", "join_timeout"}

C5_StopOrderAndEmptyQueue ==
  [][\A c \in CallerIds :
       (Returning(c, "stop") /\ c_log[c] # << <<"noop", 0>> >>) =>
         /\ \E j \in JoinOutcomes : c_log[c] = StopSteps(Range(c_errors[c]), j)
         /\ event_queue = <<>>
         /\ ~is_running]_vars

\* C6: when adapters raise from stop() inside InputRouter.stop(), then at the
\* step that raises to the caller stop() has been called on every adapter,
\* the worker shutdown has run, is_running is false, and the caller gets one
\* error.
C6_StopReportsAfterCleanup ==
  [][\A c \in CallerIds :
       (Returning(c, "stop") /\ c_errors[c] # <<>>) =>
         /\ \E j \in JoinOutcomes : c_log[c] = StopSteps(Range(c_errors[c]), j)
         /\ \A a \in Adapters : ~a_running[a]
         /\ worker_thread = 0
         /\ ~is_running
         /\ c_result'[c] = "raised_stop"]_vars

\* a stop() in which two adapters failed to stop is about to raise
C6_Witness ==
  /\ c_pc[1] = "finish"
  /\ c_call[1] = "stop"
  /\ Len(c_errors[1]) >= 2
  /\ c_errors[1][1] = NumAdapters
  /\ ~is_running

\* the place of event e in the order of the puts
PutPlace(e) == CHOOSE i \in 1..Len(enq_log) : enq_log[i] = e

\* C7: the events are given to the tracker engine in the order in which they
\* were put on the queue, each of them at most once.
C7_DispatchInQueueOrder ==
  \A i, j \in 1..Len(match_log) :
    i < j => PutPlace(match_log[i]) < PutPlace(match_log[j])

\* the threads that are inside the tracker engine: a worker between the two
\* loops of process_event, a caller inside set_skill_items
InEngine ==
  {<<"worker", w>> : w \in {x \in Workers : w_pc[x] = "arm"}}
  \cup {<<"caller", c>> : c \in {x \in CallerIds : c_pc[x] = "ssi_assign"}}

\* C8: at most one thread at a time is inside the tracker engine.
C8_OneThreadInEngine == Cardinality(InEngine) <= 1

\* C9: an exception raised by matching or by a subscriber goes to on_error
\* and never ends the worker thread.
C9_NoFailureEndsWorker ==
  \A w \in Workers :
    /\ w_pc[w] # "crashed"
    /\ w_exc[w] # "none" => w_pc[w] = "on_error"

\* the calls a worker made for one event are in the order of _dispatch_event:
\* process_event, on_event, on_triggered with process_event's list, each
\* after a call that returned, and on_error last, after a call that raised
\* and with the step that raised
CallsInOrder(cs) ==
  /\ Len(cs) <= 4
  /\ \A k \in 1..Len(cs) :
       /\ cs[k][1] = "process_event" <=> k = 1
       /\ cs[k][1] = "on_event" => k = 2 /\ cs[1][3] = "returned"
       /\ cs[k][1] = "on_triggered" =>
            /\ k = 3
            /\ cs[2][1] = "on_event" /\ cs[2][3] = "returned"
            /\ cs[k][2] = cs[1][2]
       /\ cs[k][1] = "on_error" =>
            /\ k = Len(cs) /\ k >= 2
            /\ cs[k - 1][3] = "raised"
            /\ cs[k][2] = <<cs[k - 1][1]>>
       /\ (cs[k][3] = "raised" /\ k < Len(cs)) => cs[k + 1][1] = "on_error"

\* the calls for one event are over: on_triggered returned, or on_error did
CallsComplete(cs) ==
  /\ cs # <<>>
  /\ cs[Len(cs)][1] \in {"on_triggered", "on_error"}
  /\ cs[Len(cs)][3] = "returned"

\* C10: for each event it takes from the queue a worker calls matching, then
\* on_event, then on_triggered with the trigger list matching returned for
\* that event, and it takes the next event only when the calls for the
\* current one are over.
C10_DispatchStepsInOrder ==
  [][\A w \in Workers :
       /\ CallsInOrder(w_calls'[w])
       /\ (w_event'[w] # w_event[w] /\ w_event[w] # Sentinel) =>
            CallsComplete(w_calls[w])]_vars

\* a worker has handled its second event, the skill press of the combo whose
\* select key the first event armed, through all three calls
C10_Witness ==
  \E w \in Workers :
    /\ w_event[w].eid = 2
    /\ w_calls[w] = << <<"process_event", <<1>>, "returned">>,
                       <<"on_event", <<>>, "returned">>,
                       <<"on_triggered", <<1>>, "returned">> >>
    /\ w_pc[w] = "loop"

\* a call of route_input_event begins with this step
RouteBegins(e) == routed = e - 1 /\ routed' = e

\* C11: route_input_event raises the type error and leaves the queue as it
\* is when its argument is not an InputEvent; given an InputEvent it puts
\* the event on the queue exactly once when the accepting flag reads true,
\* and otherwise returns without raising and without touching the queue
C11_RouteInputEvent ==
  [][\A e \in EventIds :
       /\ RouteBegins(e) =>
            /\ event_queue' = event_queue
            /\ enq_log' = enq_log
            /\ p_pc'[e] = IF ~is_InputEvent(p_arg'[e]) THEN "raised"
                          ELSE IF accepting_events THEN "put" ELSE "idle"
       /\ p_pc[e] = "raised" => p_pc'[e] = "raised"
       /\ (p_pc[e] = "put" /\ p_pc'[e] # "put") =>
            /\ is_InputEvent(p_arg[e])
            /\ event_queue' = Append(event_queue, [eid |-> e, ev |-> p_arg[e]])
            /\ p_pc'[e] = "idle"
       /\ (e \in Range(enq_log') /\ e \notin Range(enq_log)) => p_pc[e] = "put"
       /\ Cardinality({i \in 1..Len(enq_log') : enq_log'[i] = e}) <= 1
    ]_vars

\* one call has ended with the type error and an accepting router has put the
\* InputEvent of another on the queue
C11_Witness ==
  \E e1, e2 \in EventIds :
    /\ p_pc[e1] = "raised"
    /\ ~is_InputEvent(p_arg[e1])
    /\ e2 \in Range(enq_log)
    /\ is_InputEvent(p_arg[e2])

\* C12: once stop() has cleared the accepting flag, no event is put on the
\* queue, and no worker dispatches an event that was put after the clear
C12_NoLateEnqueue ==
  /\ late_puts = {}
  /\ \A w \in Workers : w_pc[w] \in DispatchPcs => w_event[w].eid \notin late_puts

\* C13: whenever is_running reads true, the worker thread is running and
\* every registered adapter has been started
C13_RunningMeansStarted ==
  is_running =>
    /\ worker_thread # 0
    /\ IsAlive(worker_thread)
    /\ \A a \in Adapters : a_running[a]

(* ----------------------------------------------------------------------- *)
(* Tracker engine properties: releases, ordering, disabled rules           *)
(* ----------------------------------------------------------------------- *)

\* C14: for a release event process_event returns an empty trigger list,
\* leaves selectKeyHeld false on every enabled rule whose select key matches
\* the event's code, and sets no rule's selectKeyHeld to true
C14_ReleaseOnlyDisarms ==
  (eng_event.ok /\ ~eng_event.pressed) =>
    /\ eng_triggered = <<>>
    /\ Len(skill_items) = Len(eng_pre)
    /\ \A i \in 1..Len(eng_pre) :
         /\ (eng_pre[i].is_enabled /\ matches(eng_pre[i].select_key, eng_event))
              => ~skill_items[i].select_key_held
         /\ skill_items[i].select_key_held => eng_pre[i].select_key_held

\* a release of its select key disarmed an armed rule
C14_Witness ==
  /\ eng_event.ok /\ ~eng_event.pressed
  /\ \E i \in 1..Len(eng_pre) :
       /\ eng_pre[i].is_enabled
       /\ matches(eng_pre[i].select_key, eng_event)
       /\ eng_pre[i].select_key_held
       /\ ~skill_items[i].select_key_held

\* C15: within one press event the trigger checks come before any arming: a
\* rule whose skill key and select key are the same code does not fire on a
\* press of that code unless it was held before, and no rule fires whose
\* select key was not held before the event, whatever the event arms
C15_ChecksBeforeArming ==
  (eng_event.ok /\ eng_event.pressed) =>
    /\ \A i \in 1..Len(eng_pre) :
         ( /\ eng_pre[i].select_key.kind # "none"
           /\ CanonOfKey(eng_pre[i].select_key) = CanonOfKey(eng_pre[i].skill_key)
           /\ ~eng_pre[i].select_key_held )
         => i \notin Range(eng_triggered)
    /\ \A i \in Range(eng_triggered) :
         eng_pre[i].select_key.kind = "none" \/ eng_pre[i].select_key_held

\* a press of the one code of a rule armed the rule and did not fire it
C15_Witness ==
  /\ eng_event.ok /\ eng_event.pressed
  /\ \E i \in 1..Len(eng_pre) :
       /\ eng_pre[i].is_enabled
       /\ eng_pre[i].select_key.kind # "none"
       /\ CanonOfKey(eng_pre[i].select_key) = CanonOfKey(eng_pre[i].skill_key)
       /\ matches(eng_pre[i].skill_key, eng_event)
       /\ ~eng_pre[i].select_key_held
       /\ skill_items[i].select_key_held
       /\ i \notin Range(eng_triggered)

\* C16: process_event changes selectKeyHeld only on enabled rules whose
\* select key matches the event's code: a disabled rule is not armed, not
\* disarmed and not fired, and an event that matches no rule's select key
\* leaves every held state as it was
C16_OnlyEnabledMatchingRulesChange ==
  eng_event.ok =>
    /\ Len(skill_items) = Len(eng_pre)
    /\ \A i \in 1..Len(eng_pre) :
         /\ skill_items[i].select_key_held # eng_pre[i].select_key_held
              => (eng_pre[i].is_enabled /\ matches(eng_pre[i].select_key, eng_event))
         /\ ~eng_pre[i].is_enabled
              => /\ skill_items[i].select_key_held = eng_pre[i].select_key_held
                 /\ i \notin Range(eng_triggered)
    /\ (\A i \in 1..Len(eng_pre) : ~matches(eng_pre[i].select_key, eng_event))
         => \A i \in 1..Len(eng_pre) :
              skill_items[i].select_key_held = eng_pre[i].select_key_held

\* a release of its select key reached a rule that was disabled while armed,
\* and the rule stayed armed
C16_Witness ==
  /\ eng_event.ok /\ ~eng_event.pressed
  /\ \E i \in 1..Len(eng_pre) :
       /\ ~eng_pre[i].is_enabled
       /\ eng_pre[i].select_key_held
       /\ matches(eng_pre[i].select_key, eng_event)
       /\ skill_items[i].select_key_held

\* C17: no armed state survives a disable: an enabled combo rule is armed,
\* and a combo rule is fired by a press, only when a press of its select key
\* has been processed since the rule was last enabled
C17_NoArmSurvivesDisable ==
  \A i \in 1..Len(skill_items) :
    skill_items[i].select_key.kind # "none" =>
      /\ (skill_items[i].is_enabled /\ skill_items[i].select_key_held)
           => i \in eng_fresh
      /\ (eng_event.ok /\ eng_event.pressed /\ i \in Range(eng_triggered))
           => i \in eng_fresh

(* ----------------------------------------------------------------------- *)
(* Countdown service properties: ticks, zero and negative durations        *)
(* ----------------------------------------------------------------------- *)

\* C18: emit_updates(now) builds exactly one event for each timer that is
\* active when it is called, in dict order: a timer with ends_at - now <= 0
\* is removed and yields Removed{completed: true, remaining: 0}, any other
\* timer stays as it is and yields Updated{remaining: ends_at - now}; so a
\* timer a tick has completed is not there for a later tick to report
C18_EmitUpdatesOnePerTimer ==
  [][ cd_op'.name = "emit_updates" =>
        /\ Len(cd_events') = Len(cd_states)
        /\ \A i \in 1..Len(cd_states) :
             LET st == cd_states[i]
                 ev == cd_events'[i]
             IN /\ ev.skill_id = st.skill_id
                /\ IF st.ends_at - cd_op'.now <= 0
                     THEN /\ ~DictHas(cd_states', st.skill_id)
                          /\ ev.type = "removed"
                          /\ ev.completed
                          /\ ev.remaining_seconds = 0
                     ELSE /\ DictHas(cd_states', st.skill_id)
                          /\ DictGet(cd_states', st.skill_id) = st
                          /\ ev.type = "updated"
                          /\ ~ev.completed
                          /\ ev.remaining_seconds = st.ends_at - cd_op'.now
        /\ \A j \in 1..Len(cd_states') : cd_states'[j] \in Range(cd_states)
    ]_vars

\* one tick completed a timer and updated another that is still running
C18_Witness ==
  /\ cd_op.name = "emit_updates"
  /\ Len(cd_events) = 2
  /\ \E i, j \in 1..Len(cd_events) :
       /\ cd_events[i].type = "removed" /\ cd_events[i].completed
       /\ cd_events[j].type = "updated" /\ cd_events[j].remaining_seconds > 0
       /\ ~DictHas(cd_states, cd_events[i].skill_id)
       /\ DictHas(cd_states, cd_events[j].skill_id)

\* C19: refresh with duration 0 removes the timer of that skill_id if there
\* is one, emits exactly one event, Removed{completed: true, remaining: 0},
\* to each subscriber, and leaves no timer for that id; no timer of length
\* zero is ever stored
C19_ZeroDurationRemoves ==
  /\ (cd_op.name = "refresh" /\ cd_op.duration_seconds = 0) =>
       /\ cd_op.result = "event"
       /\ ~DictHas(cd_states, cd_op.skill_id)
       /\ cd_events = <<[type |-> "removed", skill_id |-> cd_op.skill_id,
                         duration_seconds |-> 0, remaining_seconds |-> 0,
                         completed |-> TRUE]>>
       /\ cd_deliveries =
            [i \in 1..Len(cd_subscribers) |-> <<cd_subscribers[i], cd_events[1]>>]
  /\ \A i \in 1..Len(cd_states) :
       cd_states[i].duration_seconds > 0 /\ cd_states[i].ends_at > cd_states[i].started_at

\* a refresh with duration 0 removed a running timer and both subscribers
\* were told once
C19_Witness ==
  /\ cd_op.name = "refresh" /\ cd_op.duration_seconds = 0 /\ cd_op.existed
  /\ Len(cd_deliveries) = 2
  /\ cd_states = <<>>

\* C20: refresh with a negative duration raises the validation error and
\* does nothing else: no timer is created, every timer, the one of the same
\* skill_id included, is as it was, and no subscriber is called
C20_NegativeDurationRejected ==
  [][ (cd_op'.name = "refresh" /\ cd_op'.duration_seconds < 0) =>
        /\ cd_op'.result = "ValueError"
        /\ cd_states' = cd_states
        /\ cd_subscribers' = cd_subscribers
        /\ cd_events' = <<>>
        /\ cd_deliveries' = <<>>
    ]_vars

\* a refresh with a negative duration was rejected while the skill_id had a
\* timer and two subscribers were listening
C20_Witness ==
  /\ cd_op.name = "refresh" /\ cd_op.duration_seconds < 0
  /\ cd_op.result = "ValueError"
  /\ cd_op.existed
  /\ DictHas(cd_states, cd_op.skill_id)
  /\ Len(cd_subscribers) = 2
  /\ cd_deliveries = <<>>

C22_RemoveReportsOnce ==
  [][ cd_op'.name = "remove" =>
        LET id == cd_op'.skill_id IN
        IF DictHas(cd_states, id)
          THEN LET st == DictGet(cd_states, id)
                   left == IF st.ends_at - cd_op'.now > 0
                             THEN st.ends_at - cd_op'.now ELSE 0
               IN /\ cd_op'.result = "event"
                  /\ cd_states' = SelectSeq(cd_states, LAMBDA t : t.skill_id # id)
                  /\ cd_events' =
                       <<[type |-> "removed", skill_id |-> id,
                          duration_seconds |-> st.duration_seconds,
                          remaining_seconds |-> IF cd_op'.completed THEN 0 ELSE left,
                          completed |-> cd_op'.completed]>>
                  /\ cd_deliveries' =
                       [i \in 1..Len(cd_subscribers) |->
                          <<cd_subscribers[i], cd_events'[1]>>]
          ELSE /\ cd_op'.result = "None"
               /\ cd_states' = cd_states
               /\ cd_events' = <<>>
               /\ cd_deliveries' = <<>>
               /\ cd_subscribers' = cd_subscribers
    ]_vars

\* a timer with time left was removed as completed and the one subscriber
\* was told that nothing remained
C22_Witness ==
  /\ cd_op.name = "remove" /\ cd_op.existed /\ cd_op.completed
  /\ Len(cd_events) = 1
  /\ cd_events[1].duration_seconds > cd_op.now
  /\ cd_events[1].remaining_seconds = 0
  /\ Len(cd_deliveries) = 1

\* C23: for every event that refresh, remove or emit_updates produces, each
\* callback subscribed at the time is invoked exactly once before the call
\* returns, event by event and within an event in subscription order; a
\* callback is in the subscriber list at most once, subscribing adds it at
\* the end only if it is not there, and unsubscribing takes it out, so that
\* it is called for nothing later
C23_EachSubscriberOncePerEvent ==
  [][ LET n == Len(cd_subscribers) IN
      /\ cd_op'.name \in {"refresh", "remove", "emit_updates"} =>
           /\ cd_subscribers' = cd_subscribers
           /\ Len(cd_deliveries') = Len(cd_events') * n
           /\ \A k \in 1..Len(cd_events'), i \in 1..n :
                cd_deliveries'[(k - 1) * n + i] = <<cd_subscribers[i], cd_events'[k]>>
      /\ cd_op'.name = "subscribe" =>
           /\ cd_deliveries' = <<>>
           /\ \/ cd_subscribers' = cd_subscribers
              \/ \E cb \in Callbacks :
                   /\ cb \notin Range(cd_subscribers)
                   /\ cd_subscribers' = Append(cd_subscribers, cb)
      /\ cd_op'.name = "unsubscribe" =>
           /\ cd_deliveries' = <<>>
           /\ \E cb \in Callbacks :
                cd_subscribers' = SelectSeq(cd_subscribers, LAMBDA c : c # cb)
      /\ \A i, j \in 1..Len(cd_subscribers') :
           cd_subscribers'[i] = cd_subscribers'[j] => i = j
    ]_vars

\* a tick with two events reached two subscribers: four invocations, the
\* first event to both before the second
C23_Witness ==
  /\ cd_op.name = "emit_updates"
  /\ Len(cd_events) = 2
  /\ Len(cd_subscribers) = 2
  /\ Len(cd_deliveries) = 4
  /\ cd_deliveries[2] = <<cd_subscribers[2], cd_events[1]>>
  /\ cd_deliveries[3] = <<cd_subscribers[1], cd_events[2]>>

(* ----------------------------------------------------------------------- *)
(* Device adapters: claims                                                 *)
(* ----------------------------------------------------------------------- *)

\* the listeners and the polling threads made by the last start() or stop()
MadeListeners == (ad_op.listeners + 1)..Len(ad_listeners)

MadeThreads == (ad_op.threads + 1)..Len(ad_threads)

C25_StopNeverRaises ==
  ad_op.call = "stop" =>
    /\ ~ad_op.raised
    /\ ~ad_is_running
    /\ ~ad_op.was_running => MadeListeners = {} /\ MadeThreads = {}

\* the last run of the callback path was given a code that cannot be
\* normalized, or met another exception while it built or delivered the event
EmitUnnormalizable ==
  ad_emit.case.callback /\ ~ad_emit.case.factory_raises /\ ~ad_emit.normalizable

EmitOtherException ==
  /\ ad_emit.case.callback
  /\ ~(ad_kind = "gamepad" /\ ad_emit.raw.kind = "none")
  /\ \/ ad_emit.case.factory_raises
     \/ ad_emit.normalizable /\ ad_emit.case.deliver # "returns"

\* C26: in the callback path of every adapter a raw code that cannot be
\* normalized is dropped silently (no event is delivered, the error callback
\* is not called), and any other exception raised while the event is built
\* or delivered is passed to the error callback that was injected and does
\* not leave the callback path into the capture thread.
C26_CallbackPathContainsErrors ==
  /\ EmitUnnormalizable =>
        ~ad_emit.out.delivered /\ ~ad_emit.out.reported /\ ~ad_emit.out.propagated
  /\ EmitOtherException =>
        /\ ad_emit.case.error_callback => ad_emit.out.reported
        /\ ~ad_emit.out.propagated

\* the events emitted for one virtual button in the running session
ButtonLog(b) == SelectSeq(ad_axis_log, LAMBDA e : e[1] = b)

\* C27: the gamepad adapter emits a press of a trigger's virtual button only
\* for a reading >= 0.5 taken while the latch is released, and a release only
\* for a reading <= 0.25 taken while the latch is pressed; a reading strictly
\* between the thresholds, and any reading that emits nothing, leaves the
\* latch as it was; so the events emitted for a virtual button within one
\* running session alternate press, release, press, ... starting with a press.
C27_TriggerHysteresis ==
  /\ \A b \in {4, 5} :
        /\ ad_axis.emitted = << <<b, TRUE>> >> =>
              /\ ad_axis.value.val >= GAMEPAD_TRIGGER_PRESS_THRESHOLD
              /\ b \notin ad_axis.before /\ ad_axis.after = ad_axis.before \cup {b}
        /\ ad_axis.emitted = << <<b, FALSE>> >> =>
              /\ ad_axis.value.val <= GAMEPAD_TRIGGER_RELEASE_THRESHOLD
              /\ b \in ad_axis.before /\ ad_axis.after = ad_axis.before \ {b}
        /\ \A i \in 1..Len(ButtonLog(b)) : ButtonLog(b)[i][2] = (i % 2 = 1)
  /\ ad_axis.emitted = <<>> => ad_axis.after = ad_axis.before
  /\ ( /\ ad_axis.value.kind = "int"
       /\ ad_axis.value.val > GAMEPAD_TRIGGER_RELEASE_THRESHOLD
       /\ ad_axis.value.val < GAMEPAD_TRIGGER_PRESS_THRESHOLD )
       => ad_axis.emitted = <<>>

\* a session in which axis 4 went over the press threshold, under the release
\* threshold and over the press threshold again
C27_Witness ==
  /\ ad_is_running
  /\ ButtonLog(4) = << <<4, TRUE>>, <<4, FALSE>>, <<4, TRUE>> >>
  /\ ad_axis.value.val = GAMEPAD_TRIGGER_PRESS_THRESHOLD

(* ----------------------------------------------------------------------- *)
(* Router: termination                                                     *)
(* ----------------------------------------------------------------------- *)

\* stop() has found the router running and is past its locked part
StopUnderWay(c) == c_call[c] = "stop" /\ c_pc[c] = "stop_adapters"

\* every stop() of a running router comes to its end
StopReturns == \A c \in CallerIds : StopUnderWay(c) ~> (c_pc[c] = "idle")

\* the worker thread of the session that a stop() ends comes to its end
WorkerExits ==
  \A w \in Workers :
    ((\E c \in CallerIds : StopUnderWay(c)) /\ worker_thread = w) ~> ~IsAlive(w)

\* C28: after stop() is called on a running router, the worker thread of
\* that session eventually leaves its loop and ends, and the stop() call
\* itself eventually returns or raises its adapter error.
C28_StopTerminates == StopReturns /\ WorkerExits

(* ----------------------------------------------------------------------- *)
(* Router: idempotent start() and stop()                                   *)
(* ----------------------------------------------------------------------- *)

\* how often a call has made the step name on adapter or worker x
Times(log, names, x) ==
  Cardinality({i \in 1..Len(log) : log[i][1] \in names /\ log[i][2] = x})

\* the worker threads made so far
Born == {w \in Workers : w_pc[w] # "unborn"}

\* C29: start() on a running router and stop() on a stopped router are
\* no-ops: they change neither the flags, the queue and the worker nor any
\* adapter, and return. A start() that opens a session makes exactly one
\* worker thread and calls start() once on each adapter; the stop() that ends
\* a session calls stop() once on each adapter and makes no worker; and when
\* a stop() returns is_running is false.
C29_StartStopIdempotent ==
  [][\A c \in CallerIds :
       /\ (c_pc[c] = "idle" /\ c_pc'[c] # "idle" /\ c_call'[c] = "start" /\ is_running) =>
             /\ UNCHANGED <<coreVars, a_running, w_pc>>
             /\ c_pc'[c] = "finish"
       /\ (c_pc[c] = "idle" /\ c_pc'[c] # "idle" /\ c_call'[c] = "stop" /\ ~is_running) =>
             /\ UNCHANGED <<coreVars, a_running, w_pc>>
             /\ c_pc'[c] = "finish"
       /\ (c_pc[c] = "idle" /\ c_pc'[c] = "start_adapters") =>
             Cardinality(Born') = Cardinality(Born) + 1
       /\ (c_pc[c] # "idle" /\ c_pc'[c] # "start_adapters") => Born' = Born
       /\ (c_pc[c] = "finish" /\ c_pc'[c] = "idle" /\ c_call[c] = "start"
             /\ CallOutcome(c) = "returned" /\ c_log[c] # <<<<"noop", 0>>>>) =>
             /\ \A a \in Adapters : Times(c_log[c], {"adapter_start"}, a) = 1
             /\ \A a \in Adapters : a_running[a]
             /\ Cardinality({i \in 1..Len(c_log[c]) : c_log[c][i][1] = "worker_start"}) = 1
       /\ (c_pc[c] = "finish" /\ c_pc'[c] = "idle" /\ c_call[c] = "stop") =>
             /\ ~is_running
             /\ c_log[c] # <<<<"noop", 0>>>> =>
                   \A a \in Adapters :
                     Times(c_log[c], {"adapter_stop", "adapter_stop_raised"}, a) = 1
  ]_vars

\* a stop() that ended a running session is about to return
C29_Witness ==
  \E c \in CallerIds :
    /\ c_pc[c] = "finish" /\ c_call[c] = "stop"
    /\ <<"accepting_off", 0>> \in Range(c_log[c])
    /\ \A a \in Adapters : Times(c_log[c], {"adapter_stop", "adapter_stop_raised"}, a) = 1
    /\ ~is_running

(* ----------------------------------------------------------------------- *)
(* Tracker engine: matching a configured key                               *)
(* ----------------------------------------------------------------------- *)

\* the configured key and the event code are the same canonical code, the
\* key normalized in the family inferred from the key itself
SameCanonicalCode(key, event) ==
  /\ key.kind # "none"
  /\ ~IsNone(CanonOfKey(key))
  /\ LowerStr(CanonOfKey(key)) = LowerStr(event.code)

\* C30: a rule key matches an event exactly when the key, normalized in the
\* device family inferred from the key itself, and the event code are the
\* same canonical code up to letter case; a key that is null or cannot be
\* normalized matches no event. Seen on a single enabled rule without a
\* select key, which fires on a press exactly when its key matches.
C30_MatchIffSameCanonicalCode ==
  (eng_event.ok /\ eng_event.pressed /\ Len(eng_pre) = 1
     /\ eng_pre[1].select_key.kind = "none") =>
    /\ matches_event_code(eng_pre[1].skill_key, eng_event)
          <=> SameCanonicalCode(eng_pre[1].skill_key, eng_event)
    /\ 1 \in Range(eng_triggered) <=> SameCanonicalCode(eng_pre[1].skill_key, eng_event)

\* the rule configured as "GamePad Button 4" has fired on a press of Buttons4
C30_Witness ==
  /\ Len(eng_pre) = 1
  /\ eng_pre[1].skill_key = k_GamePadButton4
  /\ eng_event.pressed /\ eng_event.code = s_Buttons \o <<"4">>
  /\ eng_triggered = <<1>>

(* ----------------------------------------------------------------------- *)
(* Code normalization properties                                           *)
(* ----------------------------------------------------------------------- *)

\* C31: for every supported raw keyboard code (letters, digits, F1-F12,
\* NumPad0-9, the punctuation keys and every alias), the keyboard normalizer
\* returns a canonical code, and normalizing that canonical code gives the
\* same canonical code again.
C31_KeyboardNormalizeIdempotent ==
  (nz_family = "keyboard" /\ nz_step = "renormalized") =>
    /\ ~IsNone(nz_code)
    /\ nz_again = nz_code

\* the button index handed to the gamepad normalizer
ButtonIndex == nz_raw.val

\* the canonical code "Buttons<k>"
Buttons(k) == s_Buttons \o DigitsOf(k)

\* C32: the gamepad normalizer maps an integer button index n to
\* Buttons(n-48) when 48 <= n <= 57, to Buttons(n) for every other
\* non-negative n and to no code for a negative n; 48 gives Buttons0, 57
\* gives Buttons9 and 12 gives Buttons12.
C32_GamepadButtonIndex ==
  (nz_family = "gamepad" /\ nz_step # "raw") =>
    /\ (48 <= ButtonIndex /\ ButtonIndex <= 57) => nz_code = Buttons(ButtonIndex - 48)
    /\ (0 <= ButtonIndex /\ ButtonIndex < 48) => nz_code = Buttons(ButtonIndex)
    /\ ButtonIndex > 57 => nz_code = Buttons(ButtonIndex)
    /\ ButtonIndex < 0 => IsNone(nz_code)
    /\ ButtonIndex = 48 => nz_code = <<"B","u","t","t","o","n","s","0">>
    /\ ButtonIndex = 57 => nz_code = <<"B","u","t","t","o","n","s","9">>
    /\ ButtonIndex = 12 => nz_code = <<"B","u","t","t","o","n","s","1","2">>

\* index 57 has been normalized to Buttons9
C32_Witness ==
  /\ nz_family = "gamepad" /\ nz_step = "normalized"
  /\ nz_raw = IntRaw(57)
  /\ nz_code = <<"B","u","t","t","o","n","s","9">>

(* ----------------------------------------------------------------------- *)
(* Runtime controller properties                                           *)
(* ----------------------------------------------------------------------- *)

\* a call of start(), stop() or set_skill_items() has just returned or raised
RuntimeCallEnds == rt_calls_left' < rt_calls_left

\* the cleanup of a session is complete: the router holds no skill items,
\* no tracked item is held and the controller has no countdown service
RuntimeCleanedUp ==
  /\ rt_router.skill_items = <<>>
  /\ Armed(rt_skill_items, rt_held) = {}
  /\ rt_countdown_service = 0

\* C33: stop() always completes its cleanup, also when the router's stop()
\* raises: when the call ends, with or without the router's error, the
\* router's skill items are cleared, no tracked item is held and the
\* countdown service reference is dropped; and a session begins with no
\* tracked item held, so no armed state passes from one session to the next.
C33_StopAlwaysCleansUp ==
  [][ /\ (RuntimeCallEnds /\ rt_op'.call = "stop") =>
           /\ RuntimeCleanedUp'
           /\ ~rt_router'.is_running
           /\ rt_op'.raised => rt_router.is_running
      /\ (RuntimeCallEnds /\ rt_op'.call = "start" /\ ~rt_op'.noop /\ ~rt_op'.raised) =>
           Armed(rt_skill_items', rt_held') = {} ]_vars

\* a stop() whose router raised has ended: an item that was held when it
\* began is reset, the bindings are gone and the error was passed on
C33_Witness ==
  /\ rt_op.call = "stop" /\ rt_op.raised
  /\ rt_op.armed # {}
  /\ RuntimeCleanedUp

\* C34: when the router fails to start, start() rolls back before passing
\* the error on: the router's skill items are cleared, no tracked item is
\* held, the countdown service just created is discarded (countdown_service
\* is None) and is_running is false.
C34_FailedStartRollsBack ==
  (rt_op.call = "start" /\ rt_op.raised) =>
    /\ RuntimeCleanedUp
    /\ ~rt_router.is_running
    /\ rt_services # <<>>

\* the start() of a second session failed: its service was made and dropped
C34_Witness ==
  /\ rt_op.call = "start" /\ rt_op.raised
  /\ Len(rt_services) = 2
  /\ rt_skill_items # <<>>
  /\ RuntimeCleanedUp

\* the slot has just run on a payload
RuntimeHandled == rt_handled'.seq # rt_handled.seq

\* the timers a service holds for one skill id
TimersOf(d, id) == {st \in Range(d) : st.skill_id = id}

\* C35: a trigger notification handled while the controller has no countdown
\* service (before start() and after stop()) creates or refreshes no timer;
\* handled during a session it refreshes, in that session's service only,
\* exactly the timer of each triggered skill's own id: the timer runs for the
\* skill's duration from the moment of the refresh (a duration of zero ends
\* it), the timers of other skills are untouched, and no skill has more than
\* one timer.
C35_TriggersRefreshOwnTimer ==
  [][ RuntimeHandled =>
        LET h == rt_handled'
            ids == {h.rows[i][1] : i \in 1..Len(h.rows)}
        IN IF h.service = 0 THEN rt_services' = rt_services
           ELSE /\ Len(rt_services') = Len(rt_services)
                /\ \A k \in 1..Len(rt_services) :
                     k # h.service => rt_services'[k] = rt_services[k]
                /\ OneTimerPerSkill(rt_services'[h.service])
                /\ \A i \in 1..Len(h.rows) :
                     TimersOf(rt_services'[h.service], h.rows[i][1]) =
                       IF h.rows[i][2] > 0
                         THEN {[skill_id |-> h.rows[i][1],
                                duration_seconds |-> h.rows[i][2],
                                started_at |-> h.nows[i],
                                ends_at |-> h.nows[i] + h.rows[i][2]]}
                       ELSE {}
                /\ \A id \in RuntimeItemIds \ ids :
                     TimersOf(rt_services'[h.service], id)
                       = TimersOf(rt_services[h.service], id) ]_vars

\* skill 1 has been triggered again in a running session: its timer was
\* restarted and the service still holds one timer
C35_Witness ==
  /\ rt_handled.seq = 2 /\ rt_handled.service = 1
  /\ rt_handled.had = {1}
  /\ rt_countdown_service = 1
  /\ Len(rt_services[1]) = 1
  /\ rt_services[1][1].skill_id = 1 /\ rt_services[1][1].started_at = 1

\* C38 as stated: a payload is handled only in the countdown service of the
\* session in which it was emitted, so a trigger of one session never
\* creates or refreshes a timer in the service of a later session.
C38_TriggersStayInSession ==
  rt_handled.service # 0 => rt_handled.emitted_in = rt_handled.service

(* ----------------------------------------------------------------------- *)
(* Router properties under concurrent callers                              *)
(* ----------------------------------------------------------------------- *)

\* every call of start() and stop() has returned
AllCallsReturned == \A c \in CallerIds : c_pc[c] = "idle"

\* C36: whatever the interleaving of start() and stop() calls made from
\* different threads, once all calls have returned the router is consistent:
\* when is_running is false no adapter is running and no worker thread is
\* alive, and when is_running is true the worker is alive, events are
\* accepted and every adapter is started.
C36_ConsistentAfterConcurrentCalls ==
  AllCallsReturned =>
    /\ ~is_running =>
         /\ \A a \in Adapters : ~a_running[a]
         /\ \A w \in Workers : ~IsAlive(w)
    /\ is_running =>
         /\ worker_thread # 0 /\ IsAlive(worker_thread)
         /\ accepting_events
         /\ \A a \in Adapters : a_running[a]

\* worker w is inside _dispatch_event with an event, before one of the
\* calls that hand it to the engine and the subscribers
Dispatching(w) == w_pc[w] \in {"match", "arm", "on_event", "on_triggered"}

\* C37: an event is dispatched only in the session in which it was routed:
\* whenever a worker is dispatching an event, the event was passed to
\* route_input_event after the latest start() began accepting events.
C37_NoDispatchAcrossSessions ==
  \A w \in Workers :
    Dispatching(w) => p_session[w_event[w].eid] = SessionsBegun

(* ----------------------------------------------------------------------- *)
(* Countdown service over Python floats                                    *)
(*                                                                         *)
(* The service converts every duration with float() and compares and adds  *)
(* the results as floats.  A float is modelled as a finite number of ticks *)
(* or NaN, with the comparisons and the arithmetic of IEEE 754: every      *)
(* comparison with NaN is false and every sum with NaN is NaN.             *)
(* ----------------------------------------------------------------------- *)

Flt(n) == [nan |-> FALSE, v |-> n]

NaN == [nan |-> TRUE, v |-> 0]

\* a < b
float_lt(a, b) == ~a.nan /\ ~b.nan /\ a.v < b.v

\* a <= b
float_le(a, b) == ~a.nan /\ ~b.nan /\ a.v <= b.v

\* a == b
float_eq(a, b) == ~a.nan /\ ~b.nan /\ a.v = b.v

\* a + b
float_add(a, b) == IF a.nan \/ b.nan THEN NaN ELSE Flt(a.v + b.v)

\* a - b
float_sub(a, b) == IF a.nan \/ b.nan THEN NaN ELSE Flt(a.v - b.v)

\* max(a, b): b only when b > a
float_max(a, b) == IF float_lt(a, b) THEN b ELSE a

\* _CountdownState(skill_id, duration_seconds, started_at, ends_at)
FloatCountdownState(skill_id, duration_seconds, now) ==
  [ skill_id |-> skill_id, duration_seconds |-> duration_seconds,
    started_at |-> now, ends_at |-> float_add(now, duration_seconds) ]

\* _CountdownState.refresh
float_state_refresh(st, duration_seconds, now) ==
  [st EXCEPT !.duration_seconds = duration_seconds,
             !.started_at = now,
             !.ends_at = float_add(now, duration_seconds)]

\* _CountdownState.remaining_seconds
float_remaining_seconds(st, now) ==
  float_max(Flt(0), float_sub(st.ends_at, now))

\* CountdownService._validate_duration: ValueError (ok = FALSE) when
\* value < 0, else the value
float_validate_duration(duration_seconds) ==
  [ok |-> ~float_lt(duration_seconds, Flt(0)), value |-> duration_seconds]

\* CountdownService._build_updated_event
float_build_updated_event(st, now) ==
  CountdownEvent("updated", st.skill_id, st.duration_seconds,
                 float_remaining_seconds(st, now), FALSE)

\* CountdownService.refresh: _states after the call, for a validated duration
float_refresh_states(d, skill_id, duration_seconds, now) ==
  IF float_eq(duration_seconds, Flt(0)) THEN DictPop(d, skill_id)
  ELSE IF ~DictHas(d, skill_id)
    THEN Append(d, FloatCountdownState(skill_id, duration_seconds, now))
  ELSE [i \in 1..Len(d) |->
          IF d[i].skill_id = skill_id
            THEN float_state_refresh(d[i], duration_seconds, now) ELSE d[i]]

\* CountdownService.refresh: the event it emits, for a validated duration
float_refresh_event(d, skill_id, duration_seconds, now) ==
  IF float_eq(duration_seconds, Flt(0))
    THEN CountdownEvent("removed", skill_id, Flt(0), Flt(0), TRUE)
  ELSE float_build_updated_event(
         DictGet(float_refresh_states(d, skill_id, duration_seconds, now), skill_id),
         now)

\* CountdownService.remove: the event it emits for an existing timer
float_remove_event(d, skill_id, completed, now) ==
  CountdownEvent("removed", skill_id, DictGet(d, skill_id).duration_seconds,
                 IF ~completed
                   THEN float_remaining_seconds(DictGet(d, skill_id), now)
                   ELSE Flt(0),
                 completed)

\* CountdownService.emit_updates: _states after the call
float_emit_updates_states(d, now) ==
  SelectSeq(d, LAMBDA st : ~float_le(float_remaining_seconds(st, now), Flt(0)))

\* CountdownService.emit_updates: the events, one per timer in dict order
float_emit_updates_events(d, now) ==
  [i \in 1..Len(d) |->
     IF float_le(float_remaining_seconds(d[i], now), Flt(0))
       THEN CountdownEvent("removed", d[i].skill_id, d[i].duration_seconds,
                           Flt(0), TRUE)
     ELSE float_build_updated_event(d[i], now)]

\* CountdownService.get_active for a skill_id that has a timer
float_get_active(d, skill_id, now) ==
  [ skill_id |-> skill_id,
    duration_seconds |-> DictGet(d, skill_id).duration_seconds,
    started_at |-> DictGet(d, skill_id).started_at,
    ends_at |-> DictGet(d, skill_id).ends_at,
    remaining_seconds |-> float_remaining_seconds(DictGet(d, skill_id), now) ]

MaxFloatNow == 2

\* the clock readings passed as now
FloatNows == {Flt(n) : n \in 0..MaxFloatNow}

\* durations tried: negative, zero, positive and NaN
FloatDurations == {Flt(n) : n \in Durations} \cup {NaN}

\* refresh(skill_id, duration_seconds, now)
CdFloatRefresh ==
  /\ \E skill_id \in SkillIds, duration_seconds \in FloatDurations, now \in FloatNows :
       IF ~float_validate_duration(duration_seconds).ok THEN
         /\ cd_op' = [name |-> "refresh", skill_id |-> skill_id,
                      duration_seconds |-> duration_seconds, now |-> now,
                      completed |-> FALSE, existed |-> DictHas(cd_states, skill_id),
                      result |-> "ValueError"]
         /\ cd_events' = <<>>
         /\ UNCHANGED cd_states
       ELSE
         /\ cd_states' = float_refresh_states(
                           cd_states, skill_id,
                           float_validate_duration(duration_seconds).value, now)
         /\ cd_events' = <<float_refresh_event(
                             cd_states, skill_id,
                             float_validate_duration(duration_seconds).value, now)>>
         /\ cd_op' = [name |-> "refresh", skill_id |-> skill_id,
                      duration_seconds |-> duration_seconds, now |-> now,
                      completed |-> FALSE, existed |-> DictHas(cd_states, skill_id),
                      result |-> "event"]
  /\ UNCHANGED <<cd_subscribers, cd_deliveries>>
  /\ UNCHANGED <<engineVars, routerVars, adapterVars, normVars, runtimeVars>>

\* remove(skill_id, completed, now)
CdFloatRemove ==
  /\ \E skill_id \in SkillIds, completed \in BOOLEAN, now \in FloatNows :
       /\ cd_op' = [name |-> "remove", skill_id |-> skill_id,
                    duration_seconds |-> Flt(0), now |-> now,
                    completed |-> completed,
                    existed |-> DictHas(cd_states, skill_id),
                    result |-> IF DictHas(cd_states, skill_id) THEN "event" ELSE "None"]
       /\ cd_states' = DictPop(cd_states, skill_id)
       /\ cd_events' = IF DictHas(cd_states, skill_id)
                         THEN <<float_remove_event(cd_states, skill_id, completed, now)>>
                         ELSE <<>>
  /\ UNCHANGED <<cd_subscribers, cd_deliveries>>
  /\ UNCHANGED <<engineVars, routerVars, adapterVars, normVars, runtimeVars>>

\* emit_updates(now)
CdFloatEmitUpdates ==
  /\ \E now \in FloatNows :
       /\ cd_op' = [name |-> "emit_updates", skill_id |-> 0,
                    duration_seconds |-> Flt(0), now |-> now, completed |-> FALSE,
                    existed |-> FALSE, result |-> "list"]
       /\ cd_states' = float_emit_updates_states(cd_states, now)
       /\ cd_events' = float_emit_updates_events(cd_states, now)
  /\ UNCHANGED <<cd_subscribers, cd_deliveries>>
  /\ UNCHANGED <<engineVars, routerVars, adapterVars, normVars, runtimeVars>>

CountdownFloatNext == CdFloatRefresh \/ CdFloatRemove \/ CdFloatEmitUpdates

\* the service with no subscriber, called with float arguments
CountdownFloatSpecInit ==
  /\ skill_items = <<>>
  /\ EngineIdle
  /\ CountdownInit
  /\ RouterIdle /\ AdapterIdle /\ NormIdle /\ RuntimeIdle

CountdownFloatSpec == CountdownFloatSpecInit /\ [][CountdownFloatNext]_vars

\* C39: after any sequence of refresh, remove and emit_updates calls every
\* stored timer has duration_seconds > 0 and ends_at == started_at +
\* duration_seconds, and the remaining time of every emitted event and of
\* every snapshot get_active returns is never negative
C39_StoredTimersWellFormed ==
  /\ \A i \in 1..Len(cd_states) :
       /\ float_lt(Flt(0), cd_states[i].duration_seconds)
       /\ float_eq(cd_states[i].ends_at,
                   float_add(cd_states[i].started_at, cd_states[i].duration_seconds))
  /\ \A i \in 1..Len(cd_events) :
       ~float_lt(cd_events[i].remaining_seconds, Flt(0))
  /\ \A skill_id \in SkillIds, now \in FloatNows :
       DictHas(cd_states, skill_id) =>
         ~float_lt(float_get_active(cd_states, skill_id, now).remaining_seconds, Flt(0))

====
